---- MODULE Spec2Model ----
\* A model of the request-dispatch core of swishcloud/goweb:
\*   Engine.ServeHTTP and safelyHandle (engine file), Context.Next / Context.Abort
\*   (context.go) and the RouterGroup registration surface (router.go).
\* Go's HandlerFunc values and the WidgetManager hooks are opaque callables: a handler
\* is modelled as a bounded, nondeterministically chosen sequence of the operations
\* a handler can perform on its Context (Next, Abort, Writer.Write, panic, return).
EXTENDS Integers, Sequences, FiniteSets, TLC

\* ---------------------------------------------------------------- bounds
\* Largest permit-pool capacity explored by the admission specification, which
\* serves capacity + 1 concurrent requests (Default() uses DefaultCapacity).
MaxCapacity == 1
\* Longest handler chain served.
MaxChain == 3
\* Most entries registered in the route table.
MaxRoutes == 2
\* Most RouterGroups built (the engine's own group included).
MaxGroups == 3
\* Longest middleware prefix a group accumulates by Use.
MaxPrefix == 1
\* Most Context operations (Next, Abort, Write, panic) the handlers of one request
\* perform in all.
MaxOps == 3

\* ------------------------------------------------------- program constants
\* make(chan int, 5) in Default().
DefaultCapacity == 5
\* Context.Abort's sentinel, 10000000000000 in the source. TLC's integers are 32-bit,
\* so the sentinel is scaled to 10^9: as in the source it exceeds every chain length
\* and a few increments of it do not overflow.
AbortIndex == 1000000000
\* c.Writer.WriteHeader(404) in safelyHandle.
StatusNotFound == 404

\* The admission specification serves capacity + 1 concurrent ServeHTTP calls.
NumRequests == MaxCapacity + 1
Requests == 1..NumRequests

\* ---------------------------------------------------------------- state
VARIABLES
    trees,      \* engine.trees: the route table, in registration order
    groups,     \* the RouterGroups built so far; groups[1] is engine.RouterGroup
    resolved,   \* the last route lookup probed: its request, the number of entries
                \* the table had, and the chain found
    capacity,   \* cap(engine.ConcurrenceNumSem)
    clients,    \* the requests the transport delivers in this run
    inputs,     \* the (method, path) pairs those requests may carry
    opsLimit,   \* how many Context operations the handlers of a request may perform
    hookMay,    \* what the installed HandlerWidget's hooks may do
    sem,        \* len(engine.ConcurrenceNumSem): permits currently held
    pc,         \* each ServeHTTP call's position
    timer,      \* each request's timer goroutine / timeout channel
    req,        \* each request's method and path
    handlers,   \* context.handlers
    index,      \* context.index
    stack,      \* the call stack below safelyHandle: Next frames and handler frames
    ops,        \* how many Context operations the request's handlers have performed
    panicking,  \* the panic value being propagated, or NoPanic
    Err,        \* context.Err
    body,       \* what the response sink has received, in order
    status,     \* the status set on the response sink (0: none set explicitly)
    writer,     \* c.Writer: the transport's ResponseWriter, or the gzipWriter around it
    gz,         \* the gzip.Writer that wrapGzip made for the request
    header,     \* the response header map, and what of it has been sent
    rec,        \* the httpResponseRecorder a LoggingMiddleware made for the request
    logs,       \* the RequestLog records handed to the Logger, per request
    Data,       \* context.Data: the request's key/value bag
    trace       \* the events of each request, in order (history)

vars == <<trees, groups, resolved, capacity, clients, inputs, opsLimit, hookMay, sem,
          pc, timer, req, handlers, index, stack, ops, panicking, Err, body, status,
          writer, gz, header, rec, logs, Data, trace>>

routeVars == <<trees, groups, resolved>>
configVars == <<capacity, clients, inputs, opsLimit, hookMay>>
wrapVars == <<writer, gz, header>>
logVars == <<rec, logs>>
serveVars == <<sem, pc, timer, req, handlers, index, stack, ops, panicking, Err, body,
               status, wrapVars, trace>>

\* ------------------------------------------------------------ values
Methods == {"GET", "POST", "PUT", "DELETE"}
\* Request methods: the registrable ones and one that no registration produces.
RequestMethods == Methods \cup {"HEAD"}
\* Request paths; "" is the path of a request line such as "GET http://host HTTP/1.1".
Paths == {"", "/a", "/b"}
\* The literal paths and the compiled patterns that registrations use; a pattern is
\* given by the paths it matches, e.g. ^/a$, ^(/a)?$ and ^/[ab]$.
LiteralPaths == {"", "/a"}
Patterns == {{"/a"}, {"", "/a"}, {"/a", "/b"}}
\* The terminal handler of the n-th registration.
HandlerNames == <<"h1", "h2", "h3", "h4">>
PathNames == <<"/a", "/b", "/c", "/d", "/e">>

NoPanic == "no panic"
NoErr == "nil"

\* A HandlersChain value: the nil slice, or a slice of handler names.
NilChain == [isNil |-> TRUE, hs |-> <<>>]
ChainOf(hs) == [isNil |-> FALSE, hs |-> hs]

\* A *regexp.Regexp value: nil, or a compiled pattern, which is modelled by the set
\* of paths it matches.
NoRegexp == [isNil |-> TRUE, lang |-> {}]
Compiled(lang) == [isNil |-> FALSE, lang |-> lang]
MatchString(re, path) == path \in re.lang

\* ------------------------------------------------------------ route table
\* RegisterRoute that puts the new entry in front of the table.
RegisterRoutePrepends(ts, method, path, regexp, prefix, handler) ==
    << [method |-> method,
        root |-> [path |-> path, regexp |-> regexp,
                  handlers |-> ChainOf(Append(prefix, handler))]] >> \o ts

\* One registration: append(engine.trees, methodTree{method, &node{path, regexp,
\* handlers: append(append(HandlersChain(nil), group.Handlers...), handler)}}).
RegisterRoute(ts, method, path, regexp, prefix, handler) ==
    Append(ts, [method |-> method,
                root |-> [path |-> path, regexp |-> regexp,
                          handlers |-> ChainOf(Append(prefix, handler))]])

\* The route lookup of ServeHTTP: a linear scan from entry i on, which stops at the
\* first entry the path test and then the method test accept.
RECURSIVE Scan(_, _, _, _)
Scan(ts, i, method, path) ==
    IF i > Len(ts) THEN NilChain
    ELSE LET v == ts[i]
         IN  IF (v.root.path = path
                   \/ (~v.root.regexp.isNil /\ MatchString(v.root.regexp, path)))
                /\ v.method = method
             THEN v.root.handlers
             ELSE Scan(ts, i + 1, method, path)

Resolve(ts, method, path) == Scan(ts, 1, method, path)

\* The table the serving specifications start from: the root group registers
\* GET PathNames[n] with a chain of n handlers (n - 1 middlewares installed by Use
\* between the registrations, then the terminal handler), for n = 1..MaxChain.
RECURSIVE BuildServe(_)
BuildServe(n) ==
    IF n = 0 THEN [trees |-> <<>>, Handlers |-> <<>>]
    ELSE LET b == BuildServe(n - 1)
         IN  [trees |-> RegisterRoute(b.trees, "GET", PathNames[n], NoRegexp,
                                      b.Handlers, "h"),
              Handlers |-> Append(b.Handlers, "m")]

ServeTrees == BuildServe(MaxChain).trees
ServeGroups == << [Handlers |-> BuildServe(MaxChain).Handlers] >>

\* The table of the compression specification: for n = 1..MaxChain - 1 a group made
\* by Group() from the engine's uses n - 1 opaque middlewares and then a compression
\* middleware (GzipMiddleware for odd n, CompressionMiddleware for even n) and
\* registers GET PathNames[n]: the chain has n + 1 handlers.
GzipPrefix(n) ==
    [i \in 1..n |-> IF i < n THEN "m"
                    ELSE IF n % 2 = 1 THEN "GzipMiddleware" ELSE "CompressionMiddleware"]

RECURSIVE BuildGzip(_)
BuildGzip(n) ==
    IF n = 0 THEN <<>>
    ELSE RegisterRoute(BuildGzip(n - 1), "GET", PathNames[n], NoRegexp, GzipPrefix(n), "h")

GzipTrees == BuildGzip(MaxChain - 1)
GzipGroups == << [Handlers |-> <<>>] >> \o [n \in 1..(MaxChain - 1) |-> [Handlers |-> GzipPrefix(n)]]

\* The table of the logging specification: for n = 1..MaxChain - 1 a group uses n - 1
\* opaque middlewares and then the Handler of a LoggingMiddleware (with a Logger for
\* odd n, with a nil Logger for even n) and registers GET PathNames[n]: the chain has
\* n + 1 handlers.
LogPrefix(n) ==
    [i \in 1..n |-> IF i < n THEN "m"
                    ELSE IF n % 2 = 1 THEN "LoggingMiddleware"
                    ELSE "LoggingMiddlewareNoLogger"]

RECURSIVE BuildLog(_)
BuildLog(n) ==
    IF n = 0 THEN <<>>
    ELSE RegisterRoute(BuildLog(n - 1), "GET", PathNames[n], NoRegexp, LogPrefix(n), "h")

LogTrees == BuildLog(MaxChain - 1)
LogGroups ==
    << [Handlers |-> <<>>] >> \o [n \in 1..(MaxChain - 1) |-> [Handlers |-> LogPrefix(n)]]

\* The requests of the serving specifications: one per registered chain, and one
\* that no entry matches.
ServeRequests ==
    {[method |-> "GET", path |-> PathNames[n], acceptEncoding |-> ""] : n \in 1..MaxChain}
        \cup {[method |-> "GET", path |-> "/none", acceptEncoding |-> ""]}

\* ------------------------------------------------------------ response sink
\* The response header map as ServeHTTP receives it: the Content-Encoding and
\* Content-Type entries, whether the header has been sent, and the Content-Encoding
\* that was sent with it.
NoHeader == [encoding |-> "", contentType |-> "", wrote |-> FALSE, sentEncoding |-> ""]
\* No gzip.Writer yet; one is "open" from gzip.NewWriter to Close, then "closed".
\* buf holds what the compressor has taken and not yet passed on.
NoGzip == [state |-> "none", wroteHeader |-> FALSE, buf |-> <<>>]

\* compress/gzip as the wrapper uses it: a stream is a header, the deflated writes and
\* a trailer. Bytes holds what the modelled writers write.
Bytes == {"handler", "hook", "pre-hook panic", "parse error", "handler panic",
          "post-hook panic"}
GzipHeader == "gzip header"
GzipTrailer == "gzip trailer"
Deflate(b) == "deflate(" \o b \o ")"

\* The header goes out with the first Write or WriteHeader, as the map is then.
SendHeader(h) ==
    IF h.wrote THEN h ELSE [h EXCEPT !.wrote = TRUE, !.sentEncoding = h.encoding]

\* Write of the transport's http.ResponseWriter: the header is sent if it has not
\* been (with the transport's default status if none was set), then the bytes.
TransportWrite(snk, bs) ==
    IF bs = <<>> THEN snk
    ELSE [snk EXCEPT !.body = @ \o bs, !.header = SendHeader(@)]

\* gzip.Writer.Write: an error and nothing written once the writer is closed;
\* otherwise the stream header goes to the underlying writer on the first Write and
\* the bytes go to the compressor, which holds them until it is closed.
GzWrite(snk, bytes) ==
    IF snk.gz.state # "open" THEN snk
    ELSE LET s1 == IF snk.gz.wroteHeader THEN snk
                   ELSE [TransportWrite(snk, <<GzipHeader>>) EXCEPT !.gz.wroteHeader = TRUE]
         IN  [s1 EXCEPT !.gz.buf = Append(@, Deflate(bytes))]

\* gzipWriter.Close, i.e. gzip.Writer.Close: the stream header if no Write sent it, the
\* compressor's pending output and the trailer go to the underlying writer; closing
\* again does nothing.
GzClose(snk) ==
    IF snk.gz.state # "open" THEN snk
    ELSE LET hd == IF snk.gz.wroteHeader THEN <<>> ELSE <<GzipHeader>>
             s1 == TransportWrite(snk, hd \o snk.gz.buf \o <<GzipTrailer>>)
         IN  [s1 EXCEPT !.gz = [state |-> "closed", wroteHeader |-> TRUE, buf |-> <<>>]]

\* gzipWriter.Write: Content-Type is detected from the bytes if the map has none,
\* then gz.Write.
GzipWriterWrite(snk, bytes) ==
    GzWrite([snk EXCEPT !.header.contentType = IF @ = "" THEN "detected" ELSE @], bytes)

\* wrapGzip: Content-Encoding is set in the header map, a gzip.Writer is made on
\* c.Writer, and c.Writer becomes the gzipWriter; nothing puts the former back.
WrapGzip(snk) ==
    [snk EXCEPT !.header.encoding = "gzip",
                !.gz = [state |-> "open", wroteHeader |-> FALSE, buf |-> <<>>],
                !.writer = "gzipWriter"]

\* c.Writer.Write: the gzipWriter's Write if wrapGzip installed it, else the Write of
\* the transport's http.ResponseWriter.
SinkWrite(snk, bytes) ==
    IF snk.writer = "gzipWriter" THEN GzipWriterWrite(snk, bytes)
    ELSE TransportWrite(snk, <<bytes>>)

\* c.Writer.WriteHeader, which the gzipWriter forwards to the transport's
\* http.ResponseWriter: the status is sent with the header unless the header has been
\* sent already.
SinkWriteHeader(snk, code) ==
    IF snk.header.wrote THEN snk
    ELSE [snk EXCEPT !.status = code, !.header = SendHeader(@)]

Sink(r) == [status |-> status[r], body |-> body[r], writer |-> writer[r], gz |-> gz[r],
            header |-> header[r]]

\* ------------------------------------------------------------ logging recorder
\* A *int: nil, or a pointer to a status code.
NilStatus == [isNil |-> TRUE, v |-> 0]
StatusOf(code) == [isNil |-> FALSE, v |-> code]
\* No httpResponseRecorder; a recorder has the writer it wraps, the status it observed
\* and the bytes it counted: &httpResponseRecorder{ResponseWriter: orig}.
NoRecorder == [orig |-> "none", status |-> NilStatus, size |-> 0]
NewRecorder(orig) == [orig |-> orig, status |-> NilStatus, size |-> 0]
\* What handlers write and the status codes they set in the logging specification.
LogPayloads == {"a", "bcd"}
LogStatusCodes == {200, 500}

\* httpResponseRecorder.Write on sink snk with recorder rc; ok tells whether the
\* wrapped writer's Write succeeds (it returns len(b), nil) or fails (0 and an error):
\*   n, err := h.ResponseWriter.Write(b); h.size += n
RecorderWrite(snk, rc, b, ok) ==
    LET n == IF ok THEN Len(b) ELSE 0
    IN  [sink |-> IF ok THEN [SinkWrite([snk EXCEPT !.writer = rc.orig], b)
                                EXCEPT !.writer = snk.writer]
                  ELSE snk,
         rec |-> [rc EXCEPT !.size = @ + n],
         n |-> n]

\* RecorderWriteHeader that takes every status: a later call replaces the recorded
\* status and is forwarded like the first.
RecorderWriteHeaderOverwrites(snk, rc, code) ==
    [sink |-> [SinkWriteHeader([snk EXCEPT !.writer = rc.orig], code)
                 EXCEPT !.writer = snk.writer],
     rec |-> [rc EXCEPT !.status = StatusOf(code)],
     panic |-> NoPanic]

\* httpResponseRecorder.WriteHeader: the first status is recorded and forwarded, a
\* second call panics before anything is forwarded.
RecorderWriteHeader(snk, rc, code) ==
    IF rc.status.isNil
    THEN [sink |-> [SinkWriteHeader([snk EXCEPT !.writer = rc.orig], code)
                      EXCEPT !.writer = snk.writer],
          rec |-> [rc EXCEPT !.status = StatusOf(code)],
          panic |-> NoPanic]
    ELSE [sink |-> snk, rec |-> rc, panic |-> "the status code has already set"]

\* ------------------------------------------------------------ call stack
NextFrame == [kind |-> "Next", k |-> -1]
HandlerFrame(k) == [kind |-> "handler", k |-> k]
Top(r) == stack[r][Len(stack[r])]
Pop(st) == SubSeq(st, 1, Len(st) - 1)
\* The two compression middlewares of context.go; every other handler is opaque.
CompressionMiddlewares == {"GzipMiddleware", "CompressionMiddleware"}
\* The handler that runs in a handler frame with index k.
HandlerAt(r, k) == IF k < Len(handlers[r].hs) THEN handlers[r].hs[k + 1] ELSE "none"
\* LoggingMiddleware.Handler of a middleware with a Logger and of one whose Logger
\* is nil.
LoggingMiddlewares == {"LoggingMiddleware", "LoggingMiddlewareNoLogger"}
HasLogger(name) == name = "LoggingMiddleware"
\* An opaque handler is running on top of the stack.
Running(r) ==
    /\ pc[r] = "chain" /\ stack[r] # <<>> /\ Top(r).kind = "handler"
    /\ HandlerAt(r, Top(r).k) \notin CompressionMiddlewares \cup LoggingMiddlewares
Event(r, e, k) == [trace EXCEPT ![r] = Append(@, <<e, k>>)]
\* The running handler may perform one more Context operation.
MayAct(r) == Running(r) /\ ops[r] < opsLimit

\* ------------------------------------------------------------ admission
\* Arrive with the Context kept in the engine and reset by every ServeHTTP call in
\* place of a Context built per call.
ArriveSharesContext(r) ==
    /\ r \in clients
    /\ pc[r] = "idle"
    /\ \A q \in clients : q < r => pc[q] # "idle"
    /\ \E rq \in inputs : req' = [req EXCEPT ![r] = rq]
    /\ timer' = [timer EXCEPT ![r] = "sleeping"]
    /\ index' = [q \in Requests |-> -1]
    /\ Data' = [q \in Requests |-> {}]
    /\ pc' = [pc EXCEPT ![r] = "select"]
    /\ trace' = Event(r, "arrive", -1)
    /\ UNCHANGED <<routeVars, configVars, logVars, wrapVars, ops, sem, handlers, stack, panicking, Err, body,
                   status>>

\* ServeHTTP up to the select: the timer goroutine is started and the Context is
\* built with index -1, an empty Data map, no error, the transport's writer. Requests are numbered in
\* the order in which their ServeHTTP calls start.
Arrive(r) ==
    /\ r \in clients
    /\ pc[r] = "idle"
    /\ \A q \in clients : q < r => pc[q] # "idle"
    /\ \E rq \in inputs : req' = [req EXCEPT ![r] = rq]
    /\ timer' = [timer EXCEPT ![r] = "sleeping"]
    /\ index' = [index EXCEPT ![r] = -1]
    /\ Data' = [Data EXCEPT ![r] = {}]
    /\ pc' = [pc EXCEPT ![r] = "select"]
    /\ trace' = Event(r, "arrive", -1)
    /\ UNCHANGED <<routeVars, configVars, logVars, wrapVars, ops, sem, handlers, stack, panicking, Err, body,
                   status>>

\* The timer goroutine on a channel without buffer: the send completes only while
\* the request is at the select to receive it.
TimerFireUnbuffered(r) ==
    /\ timer[r] = "sleeping"
    /\ pc[r] = "select"
    /\ timer' = [timer EXCEPT ![r] = "fired"]
    /\ UNCHANGED <<routeVars, configVars, logVars, Data, wrapVars, ops, sem, pc, req, handlers, index, stack,
                   panicking, Err, body, status, trace>>

\* The timer goroutine: after the sleep, timeout <- true on a channel of capacity 1,
\* which never blocks; the goroutine then ends.
TimerFire(r) ==
    /\ timer[r] = "sleeping"
    /\ timer' = [timer EXCEPT ![r] = "fired"]
    /\ UNCHANGED <<routeVars, configVars, logVars, Data, wrapVars, ops, sem, pc, req, handlers, index, stack,
                   panicking, Err, body, status, trace>>

\* Acquire on a channel whose send never blocks.
AcquireUnbounded(r) ==
    /\ pc[r] = "select"
    /\ sem' = sem + 1
    /\ handlers' = [handlers EXCEPT ![r] = Resolve(trees, req[r].method, req[r].path)]
    /\ pc' = [pc EXCEPT ![r] = "pre"]
    /\ trace' = Event(r, "acquire", -1)
    /\ UNCHANGED <<routeVars, configVars, logVars, Data, wrapVars, ops, timer, req, index, stack, panicking, Err,
                   body, status>>

\* case engine.ConcurrenceNumSem <- 1: the send succeeds while the channel has room;
\* the route lookup follows and safelyHandle is entered.
Acquire(r) ==
    /\ pc[r] = "select"
    /\ sem < capacity
    /\ sem' = sem + 1
    /\ handlers' = [handlers EXCEPT ![r] = Resolve(trees, req[r].method, req[r].path)]
    /\ pc' = [pc EXCEPT ![r] = "pre"]
    /\ trace' = Event(r, "acquire", -1)
    /\ UNCHANGED <<routeVars, configVars, logVars, Data, wrapVars, ops, timer, req, index, stack, panicking, Err,
                   body, status>>

\* Shed that only logs the overload and writes nothing to the client.
ShedSilent(r) ==
    /\ pc[r] = "select"
    /\ timer[r] = "fired"
    /\ timer' = [timer EXCEPT ![r] = "received"]
    /\ pc' = [pc EXCEPT ![r] = "done"]
    /\ trace' = Event(r, "shed", -1)
    /\ UNCHANGED <<routeVars, configVars, logVars, Data, wrapVars, ops, sem, req, handlers, index, stack,
                   panicking, Err, body, status>>

\* Shed that answers with a status line of its own before the overload body.
ShedSetsStatus(r) ==
    /\ pc[r] = "select"
    /\ timer[r] = "fired"
    /\ timer' = [timer EXCEPT ![r] = "received"]
    /\ LET snk == SinkWrite(SinkWriteHeader(Sink(r), 503), "server overload")
       IN  /\ body' = [body EXCEPT ![r] = snk.body]
           /\ status' = [status EXCEPT ![r] = snk.status]
           /\ gz' = [gz EXCEPT ![r] = snk.gz]
           /\ header' = [header EXCEPT ![r] = snk.header]
    /\ pc' = [pc EXCEPT ![r] = "done"]
    /\ trace' = Event(r, "shed", -1)
    /\ UNCHANGED <<routeVars, configVars, logVars, Data, writer, ops, sem, req, handlers, index, stack, panicking,
                   Err>>

\* Shed whose abandoned send is still carried out: the permit is taken and never
\* handed back.
ShedLeaksPermit(r) ==
    /\ pc[r] = "select"
    /\ timer[r] = "fired"
    /\ timer' = [timer EXCEPT ![r] = "received"]
    /\ sem' = IF sem < capacity THEN sem + 1 ELSE sem
    /\ LET snk == SinkWrite(Sink(r), "server overload")
       IN  /\ body' = [body EXCEPT ![r] = snk.body]
           /\ status' = [status EXCEPT ![r] = snk.status]
           /\ gz' = [gz EXCEPT ![r] = snk.gz]
           /\ header' = [header EXCEPT ![r] = snk.header]
    /\ pc' = [pc EXCEPT ![r] = "done"]
    /\ trace' = Event(r, "shed", -1)
    /\ UNCHANGED <<routeVars, configVars, logVars, Data, writer, ops, req, handlers, index, stack, panicking,
                   Err>>

\* Shed as the default case of a select would be: taken whenever no permit is free,
\* without waiting for the deadline.
ShedBeforeDeadline(r) ==
    /\ pc[r] = "select"
    /\ timer[r] \in {"sleeping", "fired"}
    /\ sem >= capacity \/ timer[r] = "fired"
    /\ timer' = [timer EXCEPT ![r] = IF @ = "fired" THEN "received" ELSE @]
    /\ LET snk == SinkWrite(Sink(r), "server overload")
       IN  /\ body' = [body EXCEPT ![r] = snk.body]
           /\ status' = [status EXCEPT ![r] = snk.status]
           /\ gz' = [gz EXCEPT ![r] = snk.gz]
           /\ header' = [header EXCEPT ![r] = snk.header]
    /\ pc' = [pc EXCEPT ![r] = "done"]
    /\ trace' = Event(r, "shed", -1)
    /\ UNCHANGED <<routeVars, configVars, logVars, Data, writer, ops, sem, req, handlers, index, stack, panicking,
                   Err>>

\* Shed inside a loop around the select: the deadline signal is taken and the request
\* goes on waiting for a permit.
ShedKeepsWaiting(r) ==
    /\ pc[r] = "select"
    /\ timer[r] = "fired"
    /\ timer' = [timer EXCEPT ![r] = "received"]
    /\ UNCHANGED <<routeVars, configVars, logVars, Data, wrapVars, ops, sem, pc, req, handlers, index, stack,
                   panicking, Err, body, status, trace>>

\* case <-timeout: the request is shed with the overload body.
Shed(r) ==
    /\ pc[r] = "select"
    /\ timer[r] = "fired"
    /\ timer' = [timer EXCEPT ![r] = "received"]
    /\ LET snk == SinkWrite(Sink(r), "server overload")
       IN  /\ body' = [body EXCEPT ![r] = snk.body]
           /\ status' = [status EXCEPT ![r] = snk.status]
           /\ gz' = [gz EXCEPT ![r] = snk.gz]
           /\ header' = [header EXCEPT ![r] = snk.header]
    /\ pc' = [pc EXCEPT ![r] = "done"]
    /\ trace' = Event(r, "shed", -1)
    /\ UNCHANGED <<routeVars, configVars, logVars, Data, writer, ops, sem, req, handlers, index, stack, panicking,
                   Err>>

\* <-engine.ConcurrenceNumSem after safelyHandle has returned.
Release(r) ==
    /\ pc[r] = "release"
    /\ sem' = sem - 1
    /\ pc' = [pc EXCEPT ![r] = "done"]
    /\ trace' = Event(r, "release", -1)
    /\ UNCHANGED <<routeVars, configVars, logVars, Data, wrapVars, ops, timer, req, handlers, index, stack,
                   panicking, Err, body, status>>

\* ------------------------------------------------------------ safelyHandle
\* What an opaque hook may do: return, write to the sink and return, or panic.
HookOutcomes == {"return", "write", "panic"}

\* The events of a hook's call, after the call itself.
HookEvents(out) ==
    IF out = "write" THEN << <<"hook Write", -1>> >>
    ELSE IF out = "panic" THEN << <<"hook panic", -1>> >>
    ELSE <<>>

\* PreProcess with the hook's call moved into the branch that has a handler chain.
PreProcessOnlyIfFound(r) ==
    /\ pc[r] = "pre"
    /\ \E out \in hookMay :
         LET o == IF handlers[r].isNil THEN "skipped" ELSE out
         IN  /\ trace' = [trace EXCEPT
                            ![r] = IF o = "skipped" THEN @
                                   ELSE Append(@, <<"Pre_Process", -1>>) \o HookEvents(o)]
             /\ LET snk == IF o = "write" THEN SinkWrite(Sink(r), "hook") ELSE Sink(r)
                IN  /\ body' = [body EXCEPT ![r] = snk.body]
                    /\ status' = [status EXCEPT ![r] = snk.status]
                    /\ gz' = [gz EXCEPT ![r] = snk.gz]
                    /\ header' = [header EXCEPT ![r] = snk.header]
             /\ panicking' = [panicking EXCEPT
                                ![r] = IF o = "panic" THEN "pre-hook panic" ELSE @]
             /\ pc' = [pc EXCEPT ![r] = IF o = "panic" THEN "deferred" ELSE "dispatch"]
    /\ UNCHANGED <<routeVars, configVars, logVars, Data, writer, ops, sem, timer, req, handlers, index, stack,
                   Err>>

\* engine.WM.HandlerWidget.Pre_Process(c)
PreProcess(r) ==
    /\ pc[r] = "pre"
    /\ \E out \in hookMay :
         /\ trace' = [trace EXCEPT ![r] = Append(@, <<"Pre_Process", -1>>) \o HookEvents(out)]
         /\ LET snk == IF out = "write" THEN SinkWrite(Sink(r), "hook") ELSE Sink(r)
            IN  /\ body' = [body EXCEPT ![r] = snk.body]
                /\ status' = [status EXCEPT ![r] = snk.status]
                /\ gz' = [gz EXCEPT ![r] = snk.gz]
                /\ header' = [header EXCEPT ![r] = snk.header]
         /\ panicking' = [panicking EXCEPT
                            ![r] = IF out = "panic" THEN "pre-hook panic" ELSE @]
         /\ pc' = [pc EXCEPT ![r] = IF out = "panic" THEN "deferred" ELSE "dispatch"]
    /\ UNCHANGED <<routeVars, configVars, logVars, Data, writer, ops, sem, timer, req, handlers, index, stack, Err>>

\* NotFound that answers as http.Error does: the status and the error text as body.
NotFoundWritesBody(r) ==
    /\ pc[r] = "dispatch"
    /\ handlers[r].isNil
    /\ Err' = [Err EXCEPT ![r] = "page not found"]
    /\ LET snk == SinkWrite(SinkWriteHeader(Sink(r), StatusNotFound), "page not found")
       IN  /\ body' = [body EXCEPT ![r] = snk.body]
           /\ status' = [status EXCEPT ![r] = snk.status]
           /\ gz' = [gz EXCEPT ![r] = snk.gz]
           /\ header' = [header EXCEPT ![r] = snk.header]
    /\ pc' = [pc EXCEPT ![r] = "deferred"]
    /\ trace' = Event(r, "not found", -1)
    /\ UNCHANGED <<routeVars, configVars, logVars, Data, writer, ops, sem, timer, req, handlers, index, stack,
                   panicking>>

\* if c.handlers == nil { c.Err = errors.New("page not found"); WriteHeader(404) }
NotFound(r) ==
    /\ pc[r] = "dispatch"
    /\ handlers[r].isNil
    /\ Err' = [Err EXCEPT ![r] = "page not found"]
    /\ LET snk == SinkWriteHeader(Sink(r), StatusNotFound)
       IN  /\ body' = [body EXCEPT ![r] = snk.body]
           /\ status' = [status EXCEPT ![r] = snk.status]
           /\ gz' = [gz EXCEPT ![r] = snk.gz]
           /\ header' = [header EXCEPT ![r] = snk.header]
    /\ pc' = [pc EXCEPT ![r] = "deferred"]
    /\ trace' = Event(r, "not found", -1)
    /\ UNCHANGED <<routeVars, configVars, logVars, Data, writer, ops, sem, timer, req, handlers, index, stack,
                   panicking>>

\* ------------------------------------------------------------ chain runner
\* Loop with the bound of its condition off by one: c.index <= len(c.handlers).
LoopOffByOne(st, i, chain) ==
    IF i <= Len(chain.hs)
    THEN [index |-> i, stack |-> Append(st, HandlerFrame(i)), invoked |-> i]
    ELSE [index |-> i, stack |-> Pop(st), invoked |-> -1]

\* Context.Next's loop, entered with the Next frame on top of st and the cursor at i:
\* for c.index < len(c.handlers) invokes c.handlers[c.index]; otherwise Next returns
\* to its caller. invoked is the index of the handler invoked, or -1.
Loop(st, i, chain) ==
    IF i < Len(chain.hs)
    THEN [index |-> i, stack |-> Append(st, HandlerFrame(i)), invoked |-> i]
    ELSE [index |-> i, stack |-> Pop(st), invoked |-> -1]

\* A call of Context.Next from the frame on top of st: c.index++, then the loop.
CallNext(st, i, chain) == Loop(Append(st, NextFrame), i + 1, chain)

\* The events of a loop test: the invocation it makes, if any.
LoopEvents(l) == IF l.invoked = -1 THEN <<>> ELSE << <<"invoke", l.invoked>> >>

\* else { err := c.Request.ParseForm(); if err != nil { panic(err) }; c.Next() }
\* On success safelyHandle calls c.Next(): c.index++ and the loop is entered.
ParseForm(r) ==
    /\ pc[r] = "dispatch"
    /\ ~handlers[r].isNil
    /\ \E ok \in BOOLEAN :
         IF ok
         THEN LET l == CallNext(<<>>, index[r], handlers[r])
              IN  /\ index' = [index EXCEPT ![r] = l.index]
                  /\ stack' = [stack EXCEPT ![r] = l.stack]
                  /\ pc' = [pc EXCEPT ![r] = IF l.stack = <<>> THEN "deferred" ELSE "chain"]
                  /\ trace' = [trace EXCEPT
                                 ![r] = Append(@, <<"ParseForm", -1>>) \o LoopEvents(l)]
                  /\ UNCHANGED panicking
         ELSE /\ panicking' = [panicking EXCEPT ![r] = "parse error"]
              /\ pc' = [pc EXCEPT ![r] = "deferred"]
              /\ trace' = Event(r, "ParseForm", -1)
              /\ UNCHANGED <<index, stack>>
    /\ UNCHANGED <<routeVars, configVars, logVars, Data, wrapVars, ops, sem, timer, req, handlers, Err, body, status>>

\* HandlerReturn for a Next written with "if" in place of "for": the Next that
\* invoked the handler returns as soon as the handler does.
HandlerReturnIfNotFor(r) ==
    /\ Running(r)
    /\ stack' = [stack EXCEPT ![r] = Pop(Pop(@))]
    /\ pc' = [pc EXCEPT ![r] = IF Pop(Pop(stack[r])) = <<>> THEN "deferred" ELSE @]
    /\ trace' = Event(r, "return", Top(r).k)
    /\ UNCHANGED <<routeVars, configVars, logVars, Data, wrapVars, ops, sem, timer, req, handlers, index,
                   panicking, Err, body, status>>

\* The running handler returns; the loop of the Next that invoked it does c.index++
\* and tests its condition again.
HandlerReturn(r) ==
    /\ Running(r)
    /\ LET l == Loop(Pop(stack[r]), index[r] + 1, handlers[r])
       IN  /\ index' = [index EXCEPT ![r] = l.index]
           /\ stack' = [stack EXCEPT ![r] = l.stack]
           /\ pc' = [pc EXCEPT ![r] = IF l.stack = <<>> THEN "deferred" ELSE @]
           /\ trace' = [trace EXCEPT
                          ![r] = Append(@, <<"return", Top(r).k>>) \o LoopEvents(l)]
    /\ UNCHANGED <<routeVars, configVars, logVars, Data, wrapVars, ops, sem, timer, req, handlers, panicking, Err,
                   body, status>>

\* Next without its leading c.index++: the nested loop starts at the cursor of the
\* handler that called it.
NextNoAdvance(r) ==
    /\ MayAct(r)
    /\ ops' = [ops EXCEPT ![r] = @ + 1]
    /\ LET l == Loop(Append(stack[r], NextFrame), index[r], handlers[r])
       IN  /\ index' = [index EXCEPT ![r] = l.index]
           /\ stack' = [stack EXCEPT ![r] = l.stack]
           /\ trace' = [trace EXCEPT
                          ![r] = Append(@, <<"Next", Top(r).k>>) \o LoopEvents(l)]
    /\ UNCHANGED <<routeVars, configVars, logVars, Data, wrapVars, sem, pc, timer, req, handlers, panicking, Err,
                   body, status>>

\* The running handler calls c.Next(): c.index++ and a nested loop is entered.
Next(r) ==
    /\ MayAct(r)
    /\ ops' = [ops EXCEPT ![r] = @ + 1]
    /\ LET l == CallNext(stack[r], index[r], handlers[r])
       IN  /\ index' = [index EXCEPT ![r] = l.index]
           /\ stack' = [stack EXCEPT ![r] = l.stack]
           /\ trace' = [trace EXCEPT
                          ![r] = Append(@, <<"Next", Top(r).k>>) \o LoopEvents(l)]
    /\ UNCHANGED <<routeVars, configVars, logVars, Data, wrapVars, sem, pc, timer, req, handlers, panicking, Err,
                   body, status>>

\* Abort that leaves the cursor where it is.
AbortNoSentinel(r) ==
    /\ MayAct(r)
    /\ ops' = [ops EXCEPT ![r] = @ + 1]
    /\ trace' = Event(r, "Abort", Top(r).k)
    /\ UNCHANGED <<routeVars, configVars, logVars, Data, wrapVars, stack, sem, pc, timer, req, handlers, index,
                   panicking, Err, body, status>>

\* The running handler calls c.Abort(): c.index = 10000000000000.
Abort(r) ==
    /\ MayAct(r)
    /\ ops' = [ops EXCEPT ![r] = @ + 1]
    /\ index' = [index EXCEPT ![r] = AbortIndex]
    /\ trace' = Event(r, "Abort", Top(r).k)
    /\ UNCHANGED <<routeVars, configVars, logVars, Data, wrapVars, stack, sem, pc, timer, req, handlers, panicking, Err,
                   body, status>>

\* The running handler writes to c.Writer.
HandlerWrite(r) ==
    /\ MayAct(r)
    /\ ops' = [ops EXCEPT ![r] = @ + 1]
    /\ LET snk == SinkWrite(Sink(r), "handler")
       IN  /\ body' = [body EXCEPT ![r] = snk.body]
           /\ status' = [status EXCEPT ![r] = snk.status]
           /\ gz' = [gz EXCEPT ![r] = snk.gz]
           /\ header' = [header EXCEPT ![r] = snk.header]
    /\ trace' = Event(r, "Write", Top(r).k)
    /\ UNCHANGED <<routeVars, configVars, logVars, Data, writer, stack, sem, pc, timer, req, handlers, index,
                   panicking, Err>>

\* The running handler never returns (it blocks, or loops without touching the
\* Context): c.handlers[c.index](c) in Next does not come back, and the request keeps
\* its permit.
HandlerStall(r) ==
    /\ Running(r)
    /\ pc' = [pc EXCEPT ![r] = "stalled"]
    /\ trace' = Event(r, "stall", Top(r).k)
    /\ UNCHANGED <<routeVars, configVars, logVars, Data, wrapVars, ops, sem, timer, req, handlers, index, stack,
                   panicking, Err, body, status>>

\* The running handler assigns the Context's exported error field: c.Err = err.
SetErr(r) ==
    /\ MayAct(r)
    /\ ops' = [ops EXCEPT ![r] = @ + 1]
    /\ Err' = [Err EXCEPT ![r] = "handler error"]
    /\ trace' = Event(r, "SetErr", Top(r).k)
    /\ UNCHANGED <<routeVars, configVars, logVars, Data, wrapVars, stack, sem, pc, timer, req, handlers, index,
                   panicking, body, status>>

\* The keys and values handlers store in the Context's Data map.
BagKeys == {"user"}
BagValues == {"v1", "v2"}

\* The running handler stores a value in the Context's map: c.Data[key] = value.
SetData(r) ==
    /\ MayAct(r)
    /\ ops' = [ops EXCEPT ![r] = @ + 1]
    /\ \E key \in BagKeys : \E value \in BagValues :
         Data' = [Data EXCEPT ![r] = {e \in @ : e[1] # key} \cup {<<key, value>>}]
    /\ trace' = Event(r, "SetData", Top(r).k)
    /\ UNCHANGED <<routeVars, configVars, logVars, wrapVars, stack, sem, pc, timer, req, handlers, index,
                   panicking, Err, body, status>>

\* ------------------------------------------------------------ structured results
\* A HandlerResult value: its Data and its Error, either of which may be nil.
Null == "null"
HandlerResult(data, error) == [data |-> data, error |-> error]
\* The values handlers pass to Success and the messages they pass to Failed.
ResultData == {"d1", "d2"}
ResultErrors == {"e1", "e2"}

\* HandlerResult.Write(w): one structured payload with the two fields is written
\* to w.
HandlerResultWrite(snk, res) == SinkWrite(snk, res)

\* Success that also ends the chain, as a terminal operation might.
SuccessAborts(r) ==
    /\ MayAct(r)
    /\ ops' = [ops EXCEPT ![r] = @ + 1]
    /\ index' = [index EXCEPT ![r] = AbortIndex]
    /\ \E data \in ResultData :
         /\ LET snk == HandlerResultWrite(Sink(r), HandlerResult(data, Null))
            IN  /\ body' = [body EXCEPT ![r] = snk.body]
                /\ status' = [status EXCEPT ![r] = snk.status]
                /\ gz' = [gz EXCEPT ![r] = snk.gz]
                /\ header' = [header EXCEPT ![r] = snk.header]
         /\ trace' = [trace EXCEPT ![r] = Append(@, <<"Success", Top(r).k, data>>)]
    /\ UNCHANGED <<routeVars, configVars, logVars, Data, writer, stack, sem, pc, timer, req, handlers,
                   panicking, Err>>

\* The running handler calls c.Success(data): HandlerResult{Data: data}.Write(c.Writer)
Success(r) ==
    /\ MayAct(r)
    /\ ops' = [ops EXCEPT ![r] = @ + 1]
    /\ \E data \in ResultData :
         /\ LET snk == HandlerResultWrite(Sink(r), HandlerResult(data, Null))
            IN  /\ body' = [body EXCEPT ![r] = snk.body]
                /\ status' = [status EXCEPT ![r] = snk.status]
                /\ gz' = [gz EXCEPT ![r] = snk.gz]
                /\ header' = [header EXCEPT ![r] = snk.header]
         /\ trace' = [trace EXCEPT ![r] = Append(@, <<"Success", Top(r).k, data>>)]
    /\ UNCHANGED <<routeVars, configVars, logVars, Data, writer, stack, sem, pc, timer, req, handlers, index,
                   panicking, Err>>

\* The running handler calls c.Failed(error): HandlerResult{Error: &error}.Write(c.Writer)
Failed(r) ==
    /\ MayAct(r)
    /\ ops' = [ops EXCEPT ![r] = @ + 1]
    /\ \E error \in ResultErrors :
         /\ LET snk == HandlerResultWrite(Sink(r), HandlerResult(Null, error))
            IN  /\ body' = [body EXCEPT ![r] = snk.body]
                /\ status' = [status EXCEPT ![r] = snk.status]
                /\ gz' = [gz EXCEPT ![r] = snk.gz]
                /\ header' = [header EXCEPT ![r] = snk.header]
         /\ trace' = [trace EXCEPT ![r] = Append(@, <<"Failed", Top(r).k, error>>)]
    /\ UNCHANGED <<routeVars, configVars, logVars, Data, writer, stack, sem, pc, timer, req, handlers, index,
                   panicking, Err>>

\* ------------------------------------------------------------ logging middleware
\* The RequestLog a LoggingMiddleware builds from the recorder and the request.
RequestLog(rc, rq) ==
    [StatusPtr |-> rc.status, Size |-> rc.size, Method |-> rq.method, Path |-> rq.path]

\* LoggingDeferred that puts the recorder's writer back only when nothing panicked.
LoggingDeferredRestoresOnReturn(p, w, rc, lg, logger, rq) ==
    [writer |-> IF p # NoPanic THEN w ELSE rc.orig,
     logs |-> IF logger THEN Append(lg, RequestLog(rc, rq)) ELSE lg,
     panicking |-> p,
     events |-> (IF p # NoPanic THEN << <<"recover logging", -1>> >> ELSE <<>>)
                  \o (IF logger THEN << <<"log", -1>> >> ELSE <<>>)
                  \o (IF p # NoPanic THEN << <<"panic again", -1>> >> ELSE <<>>)]

\* The deferred function of LoggingMiddleware.Handler, run with panic value p (or
\* NoPanic), c.Writer w, recorder rc, the records lg handed over so far, for a
\* middleware with or without a Logger:
\*   if p := recover(); p != nil { panicked = p }
\*   c.Writer = orig
\*   requestLog := &RequestLog{..., StatusPtr: rec.status, Size: rec.size, ...}
\*   if lm.Logger != nil { go func(rl) { lm.Logger.Log(rl) }(requestLog) }
\*   if panicked != nil { panic(panicked) }
\* The record counts as handed over when the goroutine that logs it is started.
LoggingDeferred(p, w, rc, lg, logger, rq) ==
    [writer |-> rc.orig,
     logs |-> IF logger THEN Append(lg, RequestLog(rc, rq)) ELSE lg,
     panicking |-> p,
     events |-> (IF p # NoPanic THEN << <<"recover logging", -1>> >> ELSE <<>>)
                  \o (IF logger THEN << <<"log", -1>> >> ELSE <<>>)
                  \o (IF p # NoPanic THEN << <<"panic again", -1>> >> ELSE <<>>)]

\* The frames of logging middlewares on the stack.
LoggingFrames(r) == {i \in 1..Len(stack[r]) : stack[r][i].kind = "logging"}

\* A panic with value p leaves every frame of the request: the deferred function of a
\* logging middleware on the stack runs on the way.
UnwindLogging(r, p) ==
    IF LoggingFrames(r) = {}
    THEN [writer |-> writer[r], logs |-> logs[r], panicking |-> p, events |-> <<>>]
    ELSE LET i == CHOOSE i \in LoggingFrames(r) : TRUE
         IN  LoggingDeferred(p, writer[r], rec[r], logs[r],
                             HasLogger(HandlerAt(r, stack[r][i].k)), req[r])

\* The frames of compression middlewares that deferred a cleanup and are still on
\* the stack.
DeferredCleanups(r) ==
    {i \in 1..Len(stack[r]) : stack[r][i].kind = "middleware" /\ gz[r].state = "open"}

\* HandlerPanic for a compression middleware that calls its cleanup after c.Next()
\* instead of deferring it: a panic passes the middleware without closing anything.
HandlerPanicSkipsCleanup(r) ==
    /\ MayAct(r)
    /\ ops' = [ops EXCEPT ![r] = @ + 1]
    /\ panicking' = [panicking EXCEPT ![r] = "handler panic"]
    /\ stack' = [stack EXCEPT ![r] = <<>>]
    /\ pc' = [pc EXCEPT ![r] = "deferred"]
    /\ trace' = Event(r, "panic", Top(r).k)
    /\ UNCHANGED <<routeVars, configVars, logVars, Data, wrapVars, sem, timer, req, handlers, index, Err, body,
                   status>>

\* The running handler panics. An opaque handler's frame and a Next loop defer
\* nothing, so the panic leaves every frame (no loop left this way advances the
\* cursor), running the cleanup a compression middleware below deferred and the
\* deferred function of a logging middleware below, and reaches safelyHandle's
\* deferred functions.
HandlerPanic(r) ==
    /\ MayAct(r)
    /\ ops' = [ops EXCEPT ![r] = @ + 1]
    /\ stack' = [stack EXCEPT ![r] = <<>>]
    /\ pc' = [pc EXCEPT ![r] = "deferred"]
    /\ LET snk == IF DeferredCleanups(r) # {} THEN GzClose(Sink(r)) ELSE Sink(r)
           ld == UnwindLogging(r, "handler panic")
       IN  /\ body' = [body EXCEPT ![r] = snk.body]
           /\ status' = [status EXCEPT ![r] = snk.status]
           /\ gz' = [gz EXCEPT ![r] = snk.gz]
           /\ header' = [header EXCEPT ![r] = snk.header]
           /\ writer' = [writer EXCEPT ![r] = ld.writer]
           /\ logs' = [logs EXCEPT ![r] = ld.logs]
           /\ panicking' = [panicking EXCEPT ![r] = ld.panicking]
           /\ trace' = [trace EXCEPT
                          ![r] = Append(@, <<"panic", Top(r).k>>)
                                   \o [i \in 1..Cardinality(DeferredCleanups(r)) |->
                                         <<"cleanup", -1>>]
                                   \o ld.events]
    /\ UNCHANGED <<routeVars, configVars, Data, rec, sem, timer, req, handlers, index, Err>>

\* ------------------------------------------------------------ compression
\* strings.Contains(c.Request.Header.Get("Accept-Encoding"), "gzip") on the header
\* values the modelled requests carry.
AcceptEncodings == {"", "deflate", "gzip, deflate"}
ContainsGzip(ae) == ae \in {"gzip", "gzip, deflate", "deflate, gzip"}

\* GzipMiddleware and CompressionMiddleware up to and including their call of c.Next():
\* if the request accepts gzip, wrapGzip is called and its cleanup is deferred; in
\* either case c.Next() follows.
Compress(r, name) ==
    /\ pc[r] = "chain" /\ stack[r] # <<>> /\ Top(r).kind = "handler"
    /\ HandlerAt(r, Top(r).k) = name
    /\ LET k == Top(r).k
           wrap == ContainsGzip(req[r].acceptEncoding)
           snk == IF wrap THEN WrapGzip(Sink(r)) ELSE Sink(r)
           l == CallNext(Append(Pop(stack[r]), [kind |-> "middleware", k |-> k]),
                         index[r], handlers[r])
       IN  /\ writer' = [writer EXCEPT ![r] = snk.writer]
           /\ gz' = [gz EXCEPT ![r] = snk.gz]
           /\ header' = [header EXCEPT ![r] = snk.header]
           /\ index' = [index EXCEPT ![r] = l.index]
           /\ stack' = [stack EXCEPT ![r] = l.stack]
           /\ trace' = [trace EXCEPT
                          ![r] = @ \o (IF wrap THEN << <<"wrapGzip", k>> >> ELSE <<>>)
                                   \o << <<"Next", k>> >> \o LoopEvents(l)]
    /\ UNCHANGED <<routeVars, configVars, logVars, Data, ops, sem, pc, timer, req, handlers, panicking, Err,
                   body, status>>

GzipMiddleware(r) == Compress(r, "GzipMiddleware")

CompressionMiddleware(r) == Compress(r, "CompressionMiddleware")

\* c.Next() has returned to a compression middleware, which returns: the deferred
\* cleanup, if there is one, closes the gzipWriter; then the loop of the Next that
\* invoked the middleware does c.index++ and tests its condition again.
CleanupReturn(r) ==
    /\ pc[r] = "chain" /\ stack[r] # <<>> /\ Top(r).kind = "middleware"
    /\ LET k == Top(r).k
           deferred == Len(stack[r]) \in DeferredCleanups(r)
           snk == IF deferred THEN GzClose(Sink(r)) ELSE Sink(r)
           l == Loop(Pop(stack[r]), index[r] + 1, handlers[r])
       IN  /\ body' = [body EXCEPT ![r] = snk.body]
           /\ status' = [status EXCEPT ![r] = snk.status]
           /\ gz' = [gz EXCEPT ![r] = snk.gz]
           /\ header' = [header EXCEPT ![r] = snk.header]
           /\ index' = [index EXCEPT ![r] = l.index]
           /\ stack' = [stack EXCEPT ![r] = l.stack]
           /\ pc' = [pc EXCEPT ![r] = IF l.stack = <<>> THEN "deferred" ELSE @]
           /\ trace' = [trace EXCEPT
                          ![r] = @ \o (IF deferred THEN << <<"cleanup", k>> >> ELSE <<>>)
                                   \o << <<"return", k>> >> \o LoopEvents(l)]
    /\ UNCHANGED <<routeVars, configVars, logVars, Data, writer, ops, sem, timer, req, handlers, panicking,
                   Err>>

\* ------------------------------------------------------------ logging
\* LoggingMiddleware.Handler up to and including its call of c.Next():
\*   orig := c.Writer; rec := &httpResponseRecorder{ResponseWriter: orig}
\*   c.Writer = rec; defer func() {...}(); c.Next()
LoggingHandler(r) ==
    /\ pc[r] = "chain" /\ stack[r] # <<>> /\ Top(r).kind = "handler"
    /\ HandlerAt(r, Top(r).k) \in LoggingMiddlewares
    /\ LET k == Top(r).k
           l == CallNext(Append(Pop(stack[r]), [kind |-> "logging", k |-> k]),
                         index[r], handlers[r])
       IN  /\ rec' = [rec EXCEPT ![r] = NewRecorder(writer[r])]
           /\ writer' = [writer EXCEPT ![r] = "recorder"]
           /\ index' = [index EXCEPT ![r] = l.index]
           /\ stack' = [stack EXCEPT ![r] = l.stack]
           /\ trace' = [trace EXCEPT
                          ![r] = @ \o << <<"LoggingMiddleware", k>>, <<"Next", k>> >>
                                   \o LoopEvents(l)]
    /\ UNCHANGED <<routeVars, configVars, Data, logs, gz, header, ops, sem, pc, timer, req, handlers,
                   panicking, Err, body, status>>

\* c.Next() has returned to LoggingMiddleware.Handler, which returns: its deferred
\* function runs with nothing to recover; then the loop of the Next that invoked the
\* middleware does c.index++ and tests its condition again.
LoggingReturn(r) ==
    /\ pc[r] = "chain" /\ stack[r] # <<>> /\ Top(r).kind = "logging"
    /\ LET k == Top(r).k
           ld == LoggingDeferred(NoPanic, writer[r], rec[r], logs[r],
                                 HasLogger(HandlerAt(r, k)), req[r])
           l == Loop(Pop(stack[r]), index[r] + 1, handlers[r])
       IN  /\ writer' = [writer EXCEPT ![r] = ld.writer]
           /\ logs' = [logs EXCEPT ![r] = ld.logs]
           /\ index' = [index EXCEPT ![r] = l.index]
           /\ stack' = [stack EXCEPT ![r] = l.stack]
           /\ pc' = [pc EXCEPT ![r] = IF l.stack = <<>> THEN "deferred" ELSE @]
           /\ trace' = [trace EXCEPT
                          ![r] = @ \o ld.events \o << <<"return", k>> >> \o LoopEvents(l)]
    /\ UNCHANGED <<routeVars, configVars, Data, rec, gz, header, ops, sem, timer, req, handlers,
                   panicking, Err, body, status>>

\* The running handler calls c.Writer.Write(b): the recorder's Write if a logging
\* middleware installed it, else the Write of the writer underneath.
WriterWrite(r) ==
    /\ MayAct(r)
    /\ ops' = [ops EXCEPT ![r] = @ + 1]
    /\ \E b \in LogPayloads, ok \in BOOLEAN :
         LET w == IF writer[r] = "recorder"
                  THEN RecorderWrite(Sink(r), rec[r], b, ok)
                  ELSE [sink |-> IF ok THEN SinkWrite(Sink(r), b) ELSE Sink(r),
                        rec |-> rec[r], n |-> IF ok THEN Len(b) ELSE 0]
         IN  /\ body' = [body EXCEPT ![r] = w.sink.body]
             /\ status' = [status EXCEPT ![r] = w.sink.status]
             /\ gz' = [gz EXCEPT ![r] = w.sink.gz]
             /\ header' = [header EXCEPT ![r] = w.sink.header]
             /\ rec' = [rec EXCEPT ![r] = w.rec]
             /\ trace' = [trace EXCEPT ![r] = Append(@, <<"Write", Top(r).k, w.n>>)]
    /\ UNCHANGED <<routeVars, configVars, Data, logs, writer, stack, sem, pc, timer, req, handlers,
                   index, panicking, Err>>

\* The running handler calls c.Writer.WriteHeader(code); the recorder's second
\* WriteHeader panics, and the panic leaves every frame as a handler's panic does.
WriterWriteHeader(r) ==
    /\ MayAct(r)
    /\ ops' = [ops EXCEPT ![r] = @ + 1]
    /\ \E code \in LogStatusCodes :
         LET w == IF writer[r] = "recorder"
                  THEN RecorderWriteHeader(Sink(r), rec[r], code)
                  ELSE [sink |-> SinkWriteHeader(Sink(r), code), rec |-> rec[r],
                        panic |-> NoPanic]
             ld == IF w.panic = NoPanic
                   THEN [writer |-> writer[r], logs |-> logs[r], panicking |-> panicking[r],
                         events |-> <<>>]
                   ELSE UnwindLogging(r, w.panic)
         IN  /\ body' = [body EXCEPT ![r] = w.sink.body]
             /\ status' = [status EXCEPT ![r] = w.sink.status]
             /\ gz' = [gz EXCEPT ![r] = w.sink.gz]
             /\ header' = [header EXCEPT ![r] = w.sink.header]
             /\ rec' = [rec EXCEPT ![r] = w.rec]
             /\ writer' = [writer EXCEPT ![r] = ld.writer]
             /\ logs' = [logs EXCEPT ![r] = ld.logs]
             /\ panicking' = [panicking EXCEPT ![r] = ld.panicking]
             /\ stack' = [stack EXCEPT ![r] = IF w.panic = NoPanic THEN @ ELSE <<>>]
             /\ pc' = [pc EXCEPT ![r] = IF w.panic = NoPanic THEN @ ELSE "deferred"]
             /\ trace' = [trace EXCEPT
                            ![r] = Append(@, <<"WriteHeader", Top(r).k, code>>)
                                     \o (IF w.panic = NoPanic
                                         THEN IF writer[r] = "recorder"
                                              THEN << <<"forward", code>> >> ELSE <<>>
                                         ELSE << <<"panic", Top(r).k>> >>)
                                     \o ld.events]
    /\ UNCHANGED <<routeVars, configVars, Data, sem, timer, req, handlers, index, Err>>

\* ------------------------------------------------------------ deferred functions
\* InnerDeferred that returns from its recover branch before the hook is called.
InnerDeferredSkipsHook(p, e, snk, out) ==
    IF p # NoPanic
    THEN [Err |-> p, sink |-> snk, panicking |-> NoPanic,
          events |-> << <<"recover", -1>> >>]
    ELSE [Err |-> e,
          sink |-> IF out = "write" THEN SinkWrite(snk, "hook") ELSE snk,
          panicking |-> IF out = "panic" THEN "post-hook panic" ELSE NoPanic,
          events |-> << <<"Post_Process", -1>> >> \o HookEvents(out)]

\* InnerDeferred that recovers the panic without recording it in the error slot.
InnerDeferredKeepsErr(p, e, snk, out) ==
    [Err |-> e,
     sink |-> IF out = "write" THEN SinkWrite(snk, "hook") ELSE snk,
     panicking |-> IF out = "panic" THEN "post-hook panic" ELSE NoPanic,
     events |-> (IF p # NoPanic THEN << <<"recover", -1>> >> ELSE <<>>)
                  \o << <<"Post_Process", -1>> >> \o HookEvents(out)]

\* The inner deferred function of safelyHandle, run with panic value p (or NoPanic),
\* error slot e and sink snk, the post-dispatch hook doing out:
\*   if err := recover(); err != nil { c.Err = errors.New(fmt.Sprintf("%s", err)) }
\*   engine.WM.HandlerWidget.Post_Process(c)
\* It leaves the error slot, the sink, the panic value that propagates further and
\* the events it made.
InnerDeferred(p, e, snk, out) ==
    [Err |-> IF p # NoPanic THEN p ELSE e,
     sink |-> IF out = "write" THEN SinkWrite(snk, "hook") ELSE snk,
     panicking |-> IF out = "panic" THEN "post-hook panic" ELSE NoPanic,
     events |-> (IF p # NoPanic THEN << <<"recover", -1>> >> ELSE <<>>)
                  \o << <<"Post_Process", -1>> >> \o HookEvents(out)]

\* OuterDeferred without its recover: the panic goes on.
OuterDeferredNoRecover(p, snk) == [sink |-> snk, panicking |-> p, events |-> <<>>]

\* The outer deferred function of safelyHandle, run with panic value p (or NoPanic):
\*   if err := recover(); err != nil { c.Writer.Write([]byte(fmt.Sprintf("%s", err))) }
OuterDeferred(p, snk) ==
    [sink |-> IF p # NoPanic THEN SinkWrite(snk, p) ELSE snk,
     panicking |-> NoPanic,
     events |-> IF p # NoPanic THEN << <<"recover outer", -1>> >> ELSE <<>>]

\* safelyHandle's body has ended, normally or by a panic: the deferred functions run,
\* the inner one first, and safelyHandle returns; a panic that neither recovered
\* would leave ServeHTTP before the permit is handed back.
Deferred(r) ==
    /\ pc[r] = "deferred"
    /\ \E out \in hookMay :
         LET inner == InnerDeferred(panicking[r], Err[r], Sink(r), out)
             outer == OuterDeferred(inner.panicking, inner.sink)
         IN  /\ Err' = [Err EXCEPT ![r] = inner.Err]
             /\ body' = [body EXCEPT ![r] = outer.sink.body]
             /\ status' = [status EXCEPT ![r] = outer.sink.status]
             /\ gz' = [gz EXCEPT ![r] = outer.sink.gz]
             /\ header' = [header EXCEPT ![r] = outer.sink.header]
             /\ panicking' = [panicking EXCEPT ![r] = outer.panicking]
             /\ pc' = [pc EXCEPT ![r] = IF outer.panicking = NoPanic
                                        THEN "release" ELSE "crashed"]
             /\ trace' = [trace EXCEPT
                            ![r] = @ \o inner.events \o outer.events
                                     \o << <<"safelyHandle ends", -1>> >>]
    /\ UNCHANGED <<routeVars, configVars, logVars, Data, writer, ops, sem, timer, req, handlers, index, stack>>

\* ------------------------------------------------------------ registration
\* Use on a prefix that all groups share: the middleware lands in every group.
UseSharedPrefix(g) ==
    /\ g \in 1..Len(groups)
    /\ Len(groups[g].Handlers) < MaxPrefix
    /\ groups' = [q \in 1..Len(groups) |-> [Handlers |-> Append(groups[q].Handlers, "m")]]
    /\ UNCHANGED <<trees, resolved, configVars, logVars, Data, serveVars>>

\* RouterGroup.Use(middleware): group.Handlers = append(group.Handlers, middleware...)
Use(g) ==
    /\ g \in 1..Len(groups)
    /\ Len(groups[g].Handlers) < MaxPrefix
    /\ groups' = [groups EXCEPT ![g].Handlers = Append(@, "m")]
    /\ UNCHANGED <<trees, resolved, configVars, logVars, Data, serveVars>>

\* RouterGroup.Group(): a new group with a copy of the receiver's Handlers.
Group(g) ==
    /\ g \in 1..Len(groups)
    /\ Len(groups) < MaxGroups
    /\ groups' = Append(groups, [Handlers |-> groups[g].Handlers])
    /\ UNCHANGED <<trees, resolved, configVars, logVars, Data, serveVars>>

\* The registration the five methods below share.
Handle(g, method, path, regexp) ==
    /\ g \in 1..Len(groups)
    /\ Len(trees) < MaxRoutes
    /\ trees' = RegisterRoute(trees, method, path, regexp, groups[g].Handlers,
                              HandlerNames[Len(trees) + 1])
    /\ UNCHANGED <<groups, resolved, configVars, logVars, Data, serveVars>>

GET(g) == \E path \in LiteralPaths : Handle(g, "GET", path, NoRegexp)

POST(g) == \E path \in LiteralPaths : Handle(g, "POST", path, NoRegexp)

PUT(g) == \E path \in LiteralPaths : Handle(g, "PUT", path, NoRegexp)

DELETE(g) == \E path \in LiteralPaths : Handle(g, "DELETE", path, NoRegexp)

\* RegexMatch registers a GET entry whose node has the pattern and the zero path "".
RegexMatch(g) == \E lang \in Patterns : Handle(g, "GET", "", Compiled(lang))

\* The route lookup of ServeHTTP applied to one request method and path.
ResolveRoute ==
    /\ \E method \in RequestMethods, path \in Paths :
         resolved' = [method |-> method, path |-> path, routes |-> Len(trees),
                      handlers |-> Resolve(trees, method, path)]
    /\ UNCHANGED <<trees, groups, configVars, logVars, Data, serveVars>>

\* ------------------------------------------------------------ specifications
\* No ServeHTTP call has started.
InitContexts ==
    /\ sem = 0
    /\ pc = [r \in Requests |-> "idle"]
    /\ timer = [r \in Requests |-> "none"]
    /\ req = [r \in Requests |-> [method |-> "GET", path |-> "/none", acceptEncoding |-> ""]]
    /\ handlers = [r \in Requests |-> NilChain]
    /\ index = [r \in Requests |-> -1]
    /\ stack = [r \in Requests |-> <<>>]
    /\ ops = [r \in Requests |-> 0]
    /\ panicking = [r \in Requests |-> NoPanic]
    /\ Err = [r \in Requests |-> NoErr]
    /\ body = [r \in Requests |-> <<>>]
    /\ status = [r \in Requests |-> 0]
    /\ writer = [r \in Requests |-> "ResponseWriter"]
    /\ gz = [r \in Requests |-> NoGzip]
    /\ header = [r \in Requests |-> NoHeader]
    /\ rec = [r \in Requests |-> NoRecorder]
    /\ logs = [r \in Requests |-> <<>>]
    /\ Data = [r \in Requests |-> {}]
    /\ trace = [r \in Requests |-> <<>>]

InitServe ==
    /\ trees = ServeTrees
    /\ groups = ServeGroups
    /\ resolved = [method |-> "GET", path |-> "/none", routes |-> 0, handlers |-> NilChain]
    /\ InitContexts

\* One request, for any registered chain or for no route, in the default engine.
InitChain ==
    /\ InitServe
    /\ capacity = DefaultCapacity
    /\ clients = {1}
    /\ inputs = ServeRequests
    /\ opsLimit = MaxOps
    /\ hookMay = HookOutcomes

\* capacity + 1 concurrent requests for the one-handler chain or for no route.
InitAdmit ==
    /\ InitServe
    /\ capacity \in 1..MaxCapacity
    /\ clients = 1..(capacity + 1)
    /\ inputs = {rq \in ServeRequests : rq.path \in {PathNames[1], "/none"}}
    /\ opsLimit = 1
    /\ hookMay = {"return", "panic"}

\* One request, with or without gzip among the encodings it accepts, for a chain
\* with a compression middleware or for no route, in the default engine; the hooks
\* write nothing, so that every byte comes from a handler or from the core.
GzipRequests ==
    {[method |-> "GET", path |-> pth, acceptEncoding |-> ae] :
        pth \in {PathNames[n] : n \in 1..(MaxChain - 1)} \cup {"/none"},
        ae \in AcceptEncodings}

InitGzip ==
    /\ trees = GzipTrees
    /\ groups = GzipGroups
    /\ resolved = [method |-> "GET", path |-> "/none", routes |-> 0, handlers |-> NilChain]
    /\ InitContexts
    /\ capacity = DefaultCapacity
    /\ clients = {1}
    /\ inputs = GzipRequests
    /\ opsLimit = MaxOps
    /\ hookMay = {"return", "panic"}

Serve(r) ==
    \/ Arrive(r) \/ TimerFire(r) \/ Acquire(r) \/ Shed(r) \/ Release(r)
    \/ PreProcess(r) \/ NotFound(r) \/ ParseForm(r)
    \/ HandlerReturn(r) \/ Next(r) \/ Abort(r) \/ HandlerWrite(r) \/ HandlerPanic(r)
    \/ Deferred(r)

NextServe == \E r \in Requests : Serve(r)

\* The admission specification leaves the cursor operations to the chain
\* specification: its handlers return, write or panic.
NextAdmit ==
    \E r \in Requests :
        \/ Arrive(r) \/ TimerFire(r) \/ Acquire(r) \/ Shed(r) \/ Release(r)
        \/ PreProcess(r) \/ NotFound(r) \/ ParseForm(r)
        \/ HandlerReturn(r) \/ HandlerWrite(r) \/ HandlerPanic(r)
        \/ Deferred(r)

\* One request in the default engine whose handlers answer with Success and Failed,
\* one call fewer than the chain specifications allow; the hooks do nothing.
InitResult ==
    /\ InitServe
    /\ capacity = DefaultCapacity
    /\ clients = {1}
    /\ inputs = ServeRequests
    /\ opsLimit = MaxOps - 1
    /\ hookMay = {"return"}

NextResult ==
    \E r \in Requests :
        \/ Arrive(r) \/ TimerFire(r) \/ Acquire(r) \/ Shed(r) \/ Release(r)
        \/ PreProcess(r) \/ NotFound(r) \/ ParseForm(r)
        \/ HandlerReturn(r) \/ Next(r) \/ Abort(r) \/ Success(r) \/ Failed(r)
        \/ Deferred(r)

\* capacity + 1 concurrent requests for the one-handler chain whose handler returns or
\* never returns; the hooks return.
InitLive ==
    /\ InitServe
    /\ capacity \in 1..MaxCapacity
    /\ clients = 1..(capacity + 1)
    /\ inputs = {rq \in ServeRequests : rq.path = PathNames[1]}
    /\ opsLimit = 0
    /\ hookMay = {"return"}

\* The steps of a dispatched request's call that are the core's or a returning
\* handler's.
Proceed(r) ==
    \/ PreProcess(r) \/ ParseForm(r) \/ HandlerReturn(r) \/ Deferred(r) \/ Release(r)

NextLive ==
    \E r \in Requests :
        \/ Arrive(r) \/ TimerFire(r) \/ Acquire(r) \/ Shed(r)
        \/ Proceed(r) \/ HandlerStall(r)

\* Fair scheduling: a sleeping timer goroutine wakes up and sends, a select with a
\* ready case carries one out, and a goroutine that can take its next step takes it.
\* Nothing makes a request arrive, and nothing makes a handler stall.
FairLive ==
    \A r \in Requests :
        /\ WF_vars(TimerFire(r))
        /\ WF_vars(Acquire(r) \/ Shed(r))
        /\ WF_vars(Proceed(r))

\* One request in the default engine whose handlers may assign the error field, call
\* Next or panic; the hooks return or panic.
InitErr ==
    /\ InitServe
    /\ capacity = DefaultCapacity
    /\ clients = {1}
    /\ inputs = ServeRequests
    /\ opsLimit = MaxOps
    /\ hookMay = {"return", "panic"}

NextErr ==
    \E r \in Requests :
        \/ Arrive(r) \/ TimerFire(r) \/ Acquire(r) \/ Shed(r) \/ Release(r)
        \/ PreProcess(r) \/ NotFound(r) \/ ParseForm(r)
        \/ HandlerReturn(r) \/ Next(r) \/ SetErr(r) \/ HandlerPanic(r)
        \/ Deferred(r)

\* One request for a chain with a logging middleware or for no route, in the default
\* engine; the hooks return.
InitLog ==
    /\ trees = LogTrees
    /\ groups = LogGroups
    /\ resolved = [method |-> "GET", path |-> "/none", routes |-> 0, handlers |-> NilChain]
    /\ InitContexts
    /\ capacity = DefaultCapacity
    /\ clients = {1}
    /\ inputs = {rq \in ServeRequests : rq.path \in {PathNames[n] : n \in 1..(MaxChain - 1)}
                                                       \cup {"/none"}}
    /\ opsLimit = MaxOps
    /\ hookMay = {"return"}

NextLog ==
    \E r \in Requests :
        \/ Arrive(r) \/ TimerFire(r) \/ Acquire(r) \/ Shed(r) \/ Release(r)
        \/ PreProcess(r) \/ NotFound(r) \/ ParseForm(r)
        \/ HandlerReturn(r) \/ Next(r) \/ HandlerPanic(r)
        \/ LoggingHandler(r) \/ LoggingReturn(r) \/ WriterWrite(r) \/ WriterWriteHeader(r)
        \/ Deferred(r)

\* Concurrent requests for the chain GzipMiddleware, h in the default engine, which
\* has room for all of them at once; the handler performs at most one operation on
\* its Context: Abort, an assignment of the error field, or a store into the bag.
InitOwn ==
    /\ trees = GzipTrees
    /\ groups = GzipGroups
    /\ resolved = [method |-> "GET", path |-> "/none", routes |-> 0, handlers |-> NilChain]
    /\ InitContexts
    /\ capacity = DefaultCapacity
    /\ clients = Requests
    /\ inputs = {rq \in GzipRequests : rq.path = PathNames[1] /\ rq.acceptEncoding = "gzip, deflate"}
    /\ opsLimit = 1
    /\ hookMay = {"return"}

NextOwn ==
    \E r \in Requests :
        \/ Arrive(r) \/ TimerFire(r) \/ Acquire(r) \/ Shed(r) \/ Release(r)
        \/ PreProcess(r) \/ ParseForm(r) \/ GzipMiddleware(r) \/ CleanupReturn(r)
        \/ HandlerReturn(r) \/ Abort(r) \/ SetErr(r) \/ SetData(r)
        \/ Deferred(r)

NextGzip ==
    \E r \in Requests :
        Serve(r) \/ GzipMiddleware(r) \/ CompressionMiddleware(r) \/ CleanupReturn(r)

\* The engine as Default() leaves it, before any registration; no request is served.
InitRoute ==
    /\ trees = <<>>
    /\ groups = << [Handlers |-> <<>>] >>
    /\ resolved = [method |-> "GET", path |-> "/none", routes |-> 0, handlers |-> NilChain]
    /\ capacity = DefaultCapacity
    /\ clients = {}
    /\ inputs = {}
    /\ opsLimit = 0
    /\ hookMay = {}
    /\ sem = 0
    /\ pc = [r \in Requests |-> "idle"]
    /\ timer = [r \in Requests |-> "none"]
    /\ req = [r \in Requests |-> [method |-> "GET", path |-> "/none", acceptEncoding |-> ""]]
    /\ handlers = [r \in Requests |-> NilChain]
    /\ index = [r \in Requests |-> -1]
    /\ stack = [r \in Requests |-> <<>>]
    /\ ops = [r \in Requests |-> 0]
    /\ panicking = [r \in Requests |-> NoPanic]
    /\ Err = [r \in Requests |-> NoErr]
    /\ body = [r \in Requests |-> <<>>]
    /\ status = [r \in Requests |-> 0]
    /\ writer = [r \in Requests |-> "ResponseWriter"]
    /\ gz = [r \in Requests |-> NoGzip]
    /\ header = [r \in Requests |-> NoHeader]
    /\ rec = [r \in Requests |-> NoRecorder]
    /\ logs = [r \in Requests |-> <<>>]
    /\ Data = [r \in Requests |-> {}]
    /\ trace = [r \in Requests |-> <<>>]

\* Registrations through the engine's own group, and lookups on the table so far.
NextRoute ==
    \/ Use(1) \/ GET(1) \/ POST(1) \/ PUT(1) \/ DELETE(1) \/ RegexMatch(1)
    \/ ResolveRoute

\* Middleware installed and routes registered through the engine's group and through
\* the groups made from it by Group(); GET stands for the four registrations by
\* literal path, which differ in the method they store only.
NextGroup ==
    \E g \in 1..MaxGroups :
        \/ Use(g) \/ Group(g)
        \/ GET(g) \/ RegexMatch(g)

SpecChain == InitChain /\ [][NextServe]_vars
SpecAdmit == InitAdmit /\ [][NextAdmit]_vars
SpecResult == InitResult /\ [][NextResult]_vars
SpecGzip == InitGzip /\ [][NextGzip]_vars
SpecLog == InitLog /\ [][NextLog]_vars
SpecOwn == InitOwn /\ [][NextOwn]_vars
SpecErr == InitErr /\ [][NextErr]_vars
SpecLive == InitLive /\ [][NextLive]_vars /\ FairLive
SpecGroup == InitRoute /\ [][NextGroup]_vars
SpecRoute == InitRoute /\ [][NextRoute]_vars

\* ------------------------------------------------------------ history
\* Where the events tagged tag, or the event <<tag, k>>, stand in a request's trace.
Positions(r, tag) == {p \in 1..Len(trace[r]) : trace[r][p][1] = tag}
PositionsOf(r, tag, k) == {p \in 1..Len(trace[r]) : trace[r][p] = <<tag, k>>}
Happened(r, tag) == Positions(r, tag) # {}
Times(r, tag) == Cardinality(Positions(r, tag))

\* The handlers a request has invoked, in order of invocation.
InvokedEvents(r) == SelectSeq(trace[r], LAMBDA e : e[1] = "invoke")
Invoked(r) == [i \in 1..Len(InvokedEvents(r)) |-> InvokedEvents(r)[i][2]]

\* What a handler does: the events of the chain.
HandlerTags == {"invoke", "return", "Next", "Abort", "Write", "panic"}
HandlerPositions(r) == {p \in 1..Len(trace[r]) : trace[r][p][1] \in HandlerTags}

Dispatched(r) == Happened(r, "acquire")
IsShed(r) == Happened(r, "shed")
\* safelyHandle has returned for the request.
Handled(r) == Dispatched(r) /\ pc[r] \in {"release", "done"}
\* Between the acquisition of a permit and its release.
InFlight == {r \in Requests : pc[r] \in {"pre", "dispatch", "chain", "stalled", "deferred",
                                           "release", "crashed"}}
ChainLen(r) == Len(handlers[r].hs)

\* ------------------------------------------------------------ claims
\* C1 (as stated): if handler Hk returns without having called Next, none of the
\* handlers after Hk is ever invoked for that request.
C1_ReturnWithoutNextShortCircuits ==
    \A r \in Requests : \A k \in 0..(MaxChain - 1) :
        (PositionsOf(r, "return", k) # {} /\ PositionsOf(r, "Next", k) = {})
            => \A j \in (k + 1)..(MaxChain - 1) : PositionsOf(r, "invoke", j) = {}

\* C1 (amended): when Hk returns without having called Next and nobody has called
\* Abort, the loop of the Next that invoked Hk goes on: if Hk is not the last handler,
\* the next thing that happens in the chain is the invocation of H(k+1).
C1_ReturnWithoutNextContinues ==
    \A r \in Requests : \A p \in Positions(r, "return") :
        LET k == trace[r][p][2]
        IN  (/\ PositionsOf(r, "Next", k) = {}
             /\ \A q \in Positions(r, "Abort") : q > p
             /\ k + 1 < ChainLen(r))
                => (p < Len(trace[r]) /\ trace[r][p + 1] = <<"invoke", k + 1>>)

\* C1 witness: the first handler of a longer chain returned without calling Next or
\* Abort and the second handler was invoked.
C1_Witness ==
    \E r \in Requests :
        /\ ChainLen(r) >= 2
        /\ PositionsOf(r, "return", 0) # {}
        /\ PositionsOf(r, "Next", 0) = {}
        /\ ~Happened(r, "Abort")
        /\ PositionsOf(r, "invoke", 1) # {}

\* C2: when safelyHandle has returned for a request with chain H1..Hn in which every
\* invoked handler called Next exactly once and there was no Abort and no panic, the
\* handlers invoked are H1, ..., Hn in this order, each once.
C2_ChainRunsInOrderOnce ==
    \A r \in Requests :
        (/\ Handled(r)
         /\ ~handlers[r].isNil
         /\ ~Happened(r, "Abort") /\ ~Happened(r, "panic") /\ ~Happened(r, "recover")
         /\ \A i \in 1..Len(Invoked(r)) :
                Cardinality(PositionsOf(r, "Next", Invoked(r)[i])) = 1)
            => Invoked(r) = [i \in 1..ChainLen(r) |-> i - 1]

\* C2 witness: the longest chain has run to its end with every handler calling Next
\* exactly once.
C2_Witness ==
    \E r \in Requests :
        /\ pc[r] = "done"
        /\ ChainLen(r) = MaxChain
        /\ ~Happened(r, "Abort") /\ ~Happened(r, "panic") /\ ~Happened(r, "recover")
        /\ \A k \in 0..(MaxChain - 1) : Cardinality(PositionsOf(r, "Next", k)) = 1

\* C3: once a handler of a request has called Abort, no handler is invoked for that
\* request any more, whatever Next calls follow.
C3_NoInvocationAfterAbort ==
    \A r \in Requests : \A p \in Positions(r, "Abort") :
        \A q \in Positions(r, "invoke") : q < p

\* C3 witness: the second of three handlers called Abort and returned, and the first
\* handler, still on the stack, then called Next again; the request has finished.
C3_Witness ==
    \E r \in Requests :
        /\ pc[r] = "done"
        /\ ChainLen(r) = 3
        /\ \E p \in PositionsOf(r, "Abort", 1) :
             \E q \in PositionsOf(r, "Next", 0) : q > p

\* C4: at most capacity requests are between permit acquisition and permit release.
C4_AtMostCapacityInFlight == Cardinality(InFlight) <= capacity

\* C4 witness: every permit is held and a further request, whose deadline timer has
\* fired, is at the select.
C4_Witness ==
    /\ Cardinality(InFlight) = capacity
    /\ \E r \in Requests : pc[r] = "select" /\ timer[r] = "fired"

\* C5: the permits held are exactly those of the requests in flight, so the pool is
\* empty when no request is being processed; no request leaves ServeHTTP with its
\* permit, and a request that has left after being dispatched released once.
C5_PermitReleasedOnEveryPath ==
    /\ sem = Cardinality(InFlight)
    /\ \A r \in Requests :
         /\ pc[r] # "crashed"
         /\ (pc[r] = "done" /\ Dispatched(r)) => Times(r, "release") = 1
         /\ Times(r, "release") <= 1

\* C5 witness: two dispatched requests have finished, one whose handler panicked and
\* one whose post-dispatch hook panicked, and the pool is empty.
C5_Witness ==
    /\ sem = 0
    /\ \E r, q \in Requests :
         /\ pc[r] = "done" /\ Err[r] = "handler panic"
         /\ pc[q] = "done" /\ Happened(q, "recover outer")

\* C6: with capacity + 1 requests, once every request has left the select while no
\* dispatched request has got as far as releasing its permit, at least one request
\* has been shed and has received exactly the body "server overload".
C6_OverloadSheds ==
    (/\ Cardinality(clients) = capacity + 1
     /\ \A r \in clients : pc[r] \notin {"idle", "select"}
     /\ \A r \in clients : ~Happened(r, "release"))
        => \E r \in clients : IsShed(r) /\ body[r] = <<"server overload">>

\* C6 witness: capacity requests are inside their handlers, past their deadlines, and
\* one more request has been shed.
C6_Witness ==
    /\ Cardinality(clients) = capacity + 1
    /\ Cardinality({r \in clients : pc[r] = "chain" /\ timer[r] = "fired"}) = capacity
    /\ \E r \in clients : IsShed(r)

\* C7: for a dispatched request the post-dispatch hook is called at most once, and
\* exactly once by the time safelyHandle returns, whatever panicked before; no panic
\* leaves safelyHandle.
C7_PostProcessOnce ==
    \A r \in Requests :
        /\ Times(r, "Post_Process") <= 1
        /\ pc[r] # "crashed"
        /\ \A p \in Positions(r, "safelyHandle ends") :
             \E q \in Positions(r, "Post_Process") : q < p
        /\ Handled(r) => Times(r, "Post_Process") = 1

\* C7 witness: safelyHandle has returned for a request whose handler panicked, and
\* the hook was called after the recovery.
C7_Witness ==
    \E r \in Requests :
        /\ Handled(r)
        /\ Err[r] = "handler panic"
        /\ \E p \in Positions(r, "recover") : \E q \in Positions(r, "Post_Process") : p < q

\* A panic of a handler or of ParseForm was contained and the request has finished.
ContainedPanic(r) == pc[r] = "done" /\ Err[r] \in {"handler panic", "parse error"}

\* C8: after a contained panic of a handler or of form parsing, the client has
\* received a non-empty body when the request finishes, whatever the post-dispatch
\* hook does.
C8_BodyAfterContainedPanic ==
    \A r \in Requests : ContainedPanic(r) => body[r] # <<>>

\* The hooks of a request are called once each, Pre_Process before every handler
\* event and Post_Process after every handler event.
HooksAroundChain(r) ==
    /\ Times(r, "Pre_Process") = 1
    /\ Times(r, "Post_Process") = 1
    /\ \A p \in Positions(r, "Pre_Process") :
         /\ \A h \in HandlerPositions(r) : p < h
         /\ \A q \in Positions(r, "Post_Process") : p < q
    /\ \A q \in Positions(r, "Post_Process") : \A h \in HandlerPositions(r) : h < q

\* C9 (as stated): for every inbound request, once ServeHTTP has returned, the hooks
\* have been called once each, in order around the chain.
C9_HooksOncePerInboundRequest ==
    \A r \in Requests : pc[r] = "done" => HooksAroundChain(r)

\* C9 (amended): for every dispatched request, once safelyHandle has returned, the
\* hooks have been called once each, in order around the chain; at no time is a hook
\* called twice or a handler run before Pre_Process or after Post_Process.
C9_HooksOncePerDispatchedRequest ==
    \A r \in Requests :
        /\ Handled(r) => HooksAroundChain(r)
        /\ Times(r, "Pre_Process") <= 1 /\ Times(r, "Post_Process") <= 1
        /\ HandlerPositions(r) # {} => Happened(r, "Pre_Process")
        /\ \A q \in Positions(r, "Post_Process") : \A h \in HandlerPositions(r) : h < q

\* C9 witness: a dispatched request whose chain ran two handlers, the second of which
\* panicked, has finished.
C9_Witness ==
    \E r \in Requests :
        /\ pc[r] = "done"
        /\ Dispatched(r)
        /\ PositionsOf(r, "panic", 1) # {}
        /\ HooksAroundChain(r)

\* An entry's matcher, as the route table's contract has it: a literal path for the
\* entries of GET/POST/PUT/DELETE, a compiled pattern for those of RegexMatch.
MatcherAccepts(v, path) ==
    IF v.root.regexp.isNil THEN v.root.path = path
    ELSE MatchString(v.root.regexp, path)

\* The chain of the first entry, in registration order, whose method is the request's
\* and whose matcher accepts the path; the nil chain if there is none.
FirstMatch(ts, method, path) ==
    LET hits == {i \in 1..Len(ts) : ts[i].method = method /\ MatcherAccepts(ts[i], path)}
    IN  IF hits = {} THEN NilChain
        ELSE ts[CHOOSE i \in hits : \A j \in hits : i <= j].root.handlers

\* The table as it was when the last lookup was made (entries are only appended).
ProbedTrees == SubSeq(trees, 1, resolved.routes)

\* C10: a lookup returns the chain of the first entry whose method equals
\* the request method and whose matcher accepts the request path, and the nil chain
\* if no entry qualifies.
C10_ResolveReturnsFirstMatch ==
    resolved.handlers = FirstMatch(ProbedTrees, resolved.method, resolved.path)

\* The same for the requests whose path is not empty.
C10_ResolveReturnsFirstMatchOnNonEmptyPath ==
    resolved.path # "" =>
        resolved.handlers = FirstMatch(ProbedTrees, resolved.method, resolved.path)

\* C11: a shed request has received exactly the bytes "server overload" and no status
\* from the core; nothing else happened to it: no permit, no route lookup result, no
\* hook and no handler, and its Context is as ServeHTTP built it.
C11_ShedGetsOnlyOverloadBody ==
    \A r \in Requests :
        IsShed(r) =>
            /\ body[r] = <<"server overload">>
            /\ status[r] = 0
            /\ trace[r] = << <<"arrive", -1>>, <<"shed", -1>> >>
            /\ handlers[r].isNil /\ index[r] = -1 /\ Err[r] = NoErr
            /\ pc[r] = "done"

\* C11 witness: a request for a registered route was shed while another request was
\* dispatched and has been handled.
C11_Witness ==
    \E r, q \in Requests :
        /\ IsShed(r) /\ req[r].path = PathNames[1]
        /\ Handled(q) /\ Happened(q, "Post_Process")

ResultEvents(r) == SelectSeq(trace[r], LAMBDA e : e[1] \in {"Success", "Failed"})

\* C17: each Success(data) has put one payload with data field data and a null error
\* field into the response, each Failed(msg) one with error field msg and a null data
\* field, in the order of the calls; the cursor is at the abort sentinel only if a
\* handler called Abort, and when nobody called Abort a handler that answered and
\* returned without calling Next is followed by the next handler of the chain.
C17_ResultsWrittenCursorKept ==
    \A r \in Requests :
        Dispatched(r) =>
            /\ Len(body[r]) = Len(ResultEvents(r))
            /\ \A i \in 1..Len(body[r]) :
                  LET e == ResultEvents(r)[i]
                  IN  IF e[1] = "Success"
                      THEN body[r][i].data = e[3] /\ body[r][i].error = Null
                      ELSE body[r][i].error = e[3] /\ body[r][i].data = Null
            /\ index[r] >= AbortIndex => Happened(r, "Abort")
            /\ \A p \in Positions(r, "return") :
                  LET k == trace[r][p][2]
                  IN  (/\ \E q \in 1..p : /\ trace[r][q][1] \in {"Success", "Failed"}
                                           /\ trace[r][q][2] = k
                       /\ PositionsOf(r, "Next", k) = {}
                       /\ ~Happened(r, "Abort")
                       /\ k + 1 < ChainLen(r))
                          => (p < Len(trace[r]) /\ trace[r][p + 1] = <<"invoke", k + 1>>)

\* C17 witness: the first handler of a chain answered with Success and returned
\* without Next or Abort, the second answered with Failed, and the response holds the
\* two payloads in this order.
C17_Witness ==
    \E r \in Requests :
        /\ pc[r] = "done"
        /\ ChainLen(r) >= 2
        /\ ~Happened(r, "Abort") /\ ~Happened(r, "Next")
        /\ Len(body[r]) = 2
        /\ body[r][1] = HandlerResult("d2", Null)
        /\ body[r][2] = HandlerResult(Null, "e1")

\* C18: for a request that passed through wrapGzip, whatever has been sent to the
\* transport was sent under a header that carried Content-Encoding: gzip.
C18_EncodingSetBeforeFirstByte ==
    \A r \in Requests :
        (gz[r].state # "none" /\ header[r].wrote) => header[r].sentEncoding = "gzip"

\* What reading a response body as a gzip stream yields: the inflated writes between
\* the stream's header and trailer, or an error.
IsGzipStream(b) ==
    /\ Len(b) >= 2
    /\ b[1] = GzipHeader /\ b[Len(b)] = GzipTrailer
    /\ \A i \in 2..(Len(b) - 1) : \E x \in Bytes : b[i] = Deflate(x)
Inflate(z) == CHOOSE x \in Bytes : Deflate(x) = z
Gunzip(b) ==
    IF IsGzipStream(b) THEN [i \in 1..(Len(b) - 2) |-> Inflate(b[i + 1])]
    ELSE <<"gzip: invalid stream">>

\* What the same hooks and handlers produce with the wrapper disabled: every Write on
\* c.Writer, in order, reaches the transport as it is.
WriteEvents(r) ==
    SelectSeq(trace[r], LAMBDA e : e[1] \in {"Write", "hook Write", "recover outer"})
PlainBody(r) ==
    [i \in 1..Len(WriteEvents(r)) |->
        IF WriteEvents(r)[i][1] = "Write" THEN "handler"
        ELSE IF WriteEvents(r)[i][1] = "hook Write" THEN "hook"
        ELSE "post-hook panic"]

\* C19: when a request that passed through wrapGzip has finished, decompressing what
\* the client received yields the body the same handler logic produces without the
\* wrapper.
C19_GunzipYieldsPlainBody ==
    \A r \in Requests :
        (pc[r] = "done" /\ gz[r].state # "none") => Gunzip(body[r]) = PlainBody(r)

\* C20: the permits occupied are those of the requests that have acquired one and
\* not released it; a shed request has never acquired one and is not in flight.
C20_PermitsMatchAcquisitions ==
    /\ sem = Cardinality({r \in Requests :
                             Times(r, "acquire") = 1 /\ Times(r, "release") = 0})
    /\ \A r \in Requests :
         /\ Times(r, "acquire") <= 1
         /\ Times(r, "release") <= Times(r, "acquire")
         /\ IsShed(r) => (~Dispatched(r) /\ r \notin InFlight)

\* C20 witness: a request was shed while every permit was held, and later all
\* requests have finished and the pool is empty.
C20_Witness ==
    /\ sem = 0
    /\ \A r \in clients : pc[r] = "done"
    /\ \E r \in clients : IsShed(r)
    /\ Cardinality({r \in clients : Happened(r, "release")}) = capacity

\* C13: only a panic of the post-dispatch hook reaches the outer deferred function of
\* safelyHandle; it is recovered there, so safelyHandle returns and the permit is
\* released, and when the request has finished the panic's description is the last
\* thing the client has received, also when a compression middleware wrapped c.Writer.
C13_PostHookPanicWrittenToClient ==
    \A r \in Requests :
        /\ pc[r] # "crashed"
        /\ \A p \in Positions(r, "recover outer") :
              /\ p > 2
              /\ trace[r][p - 1] = <<"hook panic", -1>>
              /\ trace[r][p - 2] = <<"Post_Process", -1>>
        /\ (pc[r] = "done" /\ Happened(r, "recover outer")) =>
              /\ Times(r, "release") = 1
              /\ body[r] # <<>>
              /\ body[r][Len(body[r])] = "post-hook panic"

\* C14: c.Writer is the gzipWriter only while the compression middleware that
\* installed it is running; once that middleware has returned or was unwound by a
\* panic, c.Writer is the transport's writer again.
C14_SinkRestoredAfterMiddleware ==
    \A r \in Requests :
        writer[r] = "gzipWriter" =>
            \E i \in 1..Len(stack[r]) : stack[r][i].kind = "middleware"

\* C15: Group() leaves the groups there are as they were and adds a child whose prefix
\* equals the receiver's at that moment; a Use changes the prefix of its receiver only,
\* so a child's Use never shows in its parent or a sibling, nor a parent's Use in a
\* child made before.
C15_GroupCopiesPrefix ==
    [][\A g \in 1..MaxGroups :
          /\ Group(g) =>
                /\ Len(groups') = Len(groups) + 1
                /\ groups'[Len(groups')].Handlers = groups[g].Handlers
                /\ \A q \in 1..Len(groups) : groups'[q] = groups[q]
          /\ Use(g) =>
                /\ Len(groups') = Len(groups)
                /\ groups'[g].Handlers = Append(groups[g].Handlers, "m")
                /\ \A q \in 1..Len(groups) : q # g => groups'[q] = groups[q]]_vars

\* C15 witness: two children were made from the engine's group while its prefix was
\* empty; then one child and the engine's group used a middleware, the other child
\* did not.
C15_Witness ==
    /\ Len(groups) >= 3
    /\ groups[1].Handlers = <<"m">>
    /\ groups[2].Handlers = <<"m">>
    /\ groups[3].Handlers = <<>>

\* C16: a registration appends exactly one entry, whose chain is the receiver's prefix
\* at that moment followed by the terminal handler; no step changes or reorders the
\* entries registered before, and every registered chain is non-empty.
C16_RegistrationAppendsPrefixPlusHandler ==
    [][/\ Len(trees') \in {Len(trees), Len(trees) + 1}
       /\ SubSeq(trees', 1, Len(trees)) = trees
       /\ \A g \in 1..MaxGroups :
             (GET(g) \/ RegexMatch(g)) =>
                 /\ Len(trees') = Len(trees) + 1
                 /\ trees'[Len(trees')].root.handlers
                       = ChainOf(Append(groups[g].Handlers, HandlerNames[Len(trees')]))
       /\ \A i \in 1..Len(trees') :
             /\ ~trees'[i].root.handlers.isNil
             /\ Len(trees'[i].root.handlers.hs) >= 1]_vars

\* C16 witness: an entry was registered through a group with an empty prefix, the
\* group then used a middleware and a second entry was registered; the first entry's
\* chain is still the terminal handler alone.
C16_Witness ==
    /\ Len(trees) = 2
    /\ trees[1].root.handlers = ChainOf(<<"h1">>)
    /\ trees[2].root.handlers = ChainOf(<<"m", "h2">>)
    /\ groups[1].Handlers = <<"m">>

\* What belongs to one request's ServeHTTP call, the deadline timer apart.
Call(r) == <<pc[r], req[r], handlers[r], index[r], stack[r], ops[r], panicking[r], Err[r],
             body[r], status[r], writer[r], gz[r], header[r], rec[r], logs[r], Data[r],
             trace[r]>>

\* C21: a request leaves the select either dispatched or shed, never both, and is
\* shed only when its own deadline timer has fired; a dispatched request is never
\* shed afterwards nor a shed one dispatched; the firing of a request's timer changes
\* nothing of its call; and a dispatched request leaves ServeHTTP only from the
\* release of its permit, the post-dispatch hook having been called once.
C21_DispatchedOrShedOnce ==
    [][\A r \in Requests :
          /\ (pc[r] = "select" /\ pc'[r] # "select")
                => \/ Dispatched(r)' /\ ~IsShed(r)' /\ pc'[r] = "pre"
                   \/ IsShed(r)' /\ ~Dispatched(r)' /\ pc'[r] = "done"
                        /\ timer[r] = "fired"
          /\ pc[r] \in {"idle", "select"} => (~Dispatched(r) /\ ~IsShed(r))
          /\ trace'[r] # trace[r]
                => /\ Dispatched(r) => ~IsShed(r)'
                   /\ IsShed(r) => ~Dispatched(r)'
          /\ timer'[r] # timer[r] /\ pc[r] # "idle" => Call(r)' = Call(r) \/ IsShed(r)'
          /\ (Dispatched(r) /\ pc[r] # "done" /\ pc'[r] = "done")
                => /\ pc[r] = "release"
                   /\ Times(r, "Post_Process")' = 1
                   /\ Times(r, "release")' = 1
      ]_vars

\* C21 witness: a request was dispatched, its deadline timer fired while its handler
\* was running, and it has finished through the post-dispatch hook and the release of
\* its permit; another request was shed.
C21_Witness ==
    \E r, q \in Requests :
        /\ pc[r] = "done" /\ Dispatched(r) /\ ~IsShed(r)
        /\ timer[r] = "fired"
        /\ Happened(r, "invoke") /\ Happened(r, "Post_Process") /\ Happened(r, "release")
        /\ IsShed(q) /\ ~Dispatched(q) /\ timer[q] = "received"

\* C22: a request that is at the select is eventually dispatched or shed, also when
\* the permits are held by requests whose handlers never return; and unless some
\* handler stalls, every request that is at the select eventually leaves ServeHTTP.
C22_NoIndefiniteWait ==
    /\ \A r \in Requests : (pc[r] = "select") ~> (Dispatched(r) \/ IsShed(r))
    /\ (\A q \in Requests : [](pc[q] # "stalled"))
          => \A r \in Requests : (pc[r] = "select") ~> (pc[r] = "done")

\* C22 witness: every permit is held by a request whose handler never returns, and a
\* request that arrived after that has been shed.
C22_Witness ==
    /\ Cardinality({q \in Requests : pc[q] = "stalled"}) = capacity
    /\ sem = capacity
    /\ \E r \in Requests : IsShed(r) /\ body[r] = <<"server overload">>

\* The request's form could not be parsed: the panic recovered came from ParseForm.
ParseFailed(r) ==
    \E q \in Positions(r, "recover") : q > 1 /\ trace[r][q - 1][1] = "ParseForm"

\* C23: from the call of the post-dispatch hook on, the error slot holds the panic's
\* description if the pre-dispatch hook, the form parsing or a handler panicked, the
\* not-found error if the request has no chain, and otherwise what the handlers
\* assigned last, nil if they assigned nothing.
C23_ErrReflectsFailure ==
    \A r \in Requests : \A p \in Positions(r, "Post_Process") :
        Err[r] = IF \E q \in Positions(r, "hook panic") : q < p THEN "pre-hook panic"
                 ELSE IF ParseFailed(r) THEN "parse error"
                 ELSE IF Happened(r, "panic") THEN "handler panic"
                 ELSE IF Happened(r, "not found") THEN "page not found"
                 ELSE IF Happened(r, "SetErr") THEN "handler error"
                 ELSE NoErr

\* C23 witness: a handler assigned the error field, a later handler panicked, and the
\* post-dispatch hook has been called with the panic's description in the slot.
C23_Witness ==
    \E r \in Requests :
        /\ Happened(r, "Post_Process")
        /\ \E p \in Positions(r, "SetErr") : \E q \in Positions(r, "panic") :
              p < q /\ trace[r][p][2] < trace[r][q][2]
        /\ Err[r] = "handler panic"

\* The entries registered through RegexMatch whose chain the last lookup returned
\* (the terminal handler makes every entry's chain its own).
SelectedRegexEntries ==
    {n \in 1..resolved.routes :
        /\ ~trees[n].root.regexp.isNil
        /\ resolved.handlers = trees[n].root.handlers}

\* C24: an entry registered through RegexMatch is selected only for a GET request
\* whose path its pattern matches.
C24_RegexEntryOnlyForMatchingGet ==
    \A n \in SelectedRegexEntries :
        /\ resolved.method = "GET"
        /\ MatchString(trees[n].root.regexp, resolved.path)

\* The same for the requests whose path is not empty.
C24_RegexEntryOnlyForMatchingGetOnNonEmptyPath ==
    resolved.path # "" =>
        \A n \in SelectedRegexEntries :
            /\ resolved.method = "GET"
            /\ MatchString(trees[n].root.regexp, resolved.path)

\* The call of the compression middleware that called wrapGzip at position p of the
\* request's trace has ended: it returned, or a panic unwound it.
MiddlewareEnded(r, p) ==
    \E q \in (p + 1)..Len(trace[r]) :
        trace[r][q] = <<"return", trace[r][p][2]>> \/ trace[r][q][1] = "panic"

\* C25: wrapGzip is called for a request only if the request accepts gzip; from then
\* on the compressor is open and its cleanup has not run for as long as the
\* middleware's call lasts, and once that call has ended, by return or by a panic,
\* the cleanup has run exactly once and the compressor is closed. For a request that
\* does not accept gzip no compressor exists, c.Writer is the transport's writer, and
\* the middleware's Next invokes the handler after it.
C25_CompressorClosedOnce ==
    \A r \in Requests :
        /\ Times(r, "wrapGzip") <= 1
        /\ \A p \in Positions(r, "wrapGzip") :
              /\ ContainsGzip(req[r].acceptEncoding)
              /\ IF MiddlewareEnded(r, p)
                 THEN Times(r, "cleanup") = 1 /\ gz[r].state = "closed"
                 ELSE Times(r, "cleanup") = 0 /\ gz[r].state = "open"
              /\ \A q \in Positions(r, "cleanup") :
                    \/ trace[r][q - 1][1] = "panic"
                    \/ q < Len(trace[r]) /\ trace[r][q + 1] = <<"return", trace[r][p][2]>>
        /\ ~ContainsGzip(req[r].acceptEncoding) =>
              /\ gz[r] = NoGzip /\ writer[r] = "ResponseWriter"
              /\ ~Happened(r, "wrapGzip") /\ ~Happened(r, "cleanup")
              /\ \A p \in Positions(r, "Next") :
                    HandlerAt(r, trace[r][p][2]) \in CompressionMiddlewares
                        => trace[r][p + 1] = <<"invoke", trace[r][p][2] + 1>>

\* C25 witness: a request that accepts gzip went through a compression middleware, the
\* handler after it wrote and panicked, and the request has finished with the
\* compressor closed by one cleanup.
C25_Witness ==
    \E r \in Requests :
        /\ pc[r] = "done"
        /\ Happened(r, "wrapGzip") /\ Happened(r, "Write") /\ Happened(r, "panic")
        /\ Times(r, "cleanup") = 1
        /\ gz[r].state = "closed"

\* The span of a request's trace in which c.Writer is the recorder: from the entry of
\* the logging middleware to the end of its call, by return or by a panic.
RecorderFrom(r) == CHOOSE p \in Positions(r, "LoggingMiddleware") : TRUE
RecorderTo(r) ==
    LET ends == {q \in (RecorderFrom(r) + 1)..Len(trace[r]) :
                    \/ trace[r][q] = <<"return", trace[r][RecorderFrom(r)][2]>>
                    \/ trace[r][q][1] = "panic"}
    IN  IF ends = {} THEN Len(trace[r]) + 1
        ELSE CHOOSE q \in ends : \A q2 \in ends : q <= q2
\* The calls of tag that handlers made through the recorder.
Through(r, tag) == {q \in Positions(r, tag) : RecorderFrom(r) < q /\ q <= RecorderTo(r)}
\* The byte counts that the first i events of the trace returned: those of the Writes in
\* the set of positions ps.
RECURSIVE Returned(_, _, _)
Returned(r, ps, i) ==
    IF i = 0 THEN 0
    ELSE Returned(r, ps, i - 1) + (IF i \in ps THEN trace[r][i][3] ELSE 0)
\* The number of bytes in a sequence of writes.
RECURSIVE Bytecount(_)
Bytecount(bs) == IF bs = <<>> THEN 0 ELSE Len(Head(bs)) + Bytecount(Tail(bs))

\* C26: for a request that a logging middleware gave a recorder, the recorded status
\* is nil exactly if no handler has called WriteHeader through the recorder; the
\* first such call is recorded and forwarded; a second one panics and is not
\* forwarded, so at most one status is forwarded and there is no third call; the
\* recorded size is the sum of the counts the Writes through the recorder returned,
\* and the client has received as many bytes as all the Writes of the request returned.
C26_RecorderObservesStatusAndSize ==
    \A r \in Requests :
        Happened(r, "LoggingMiddleware") =>
            LET hs == Through(r, "WriteHeader")
                first == CHOOSE q \in hs : \A q2 \in hs : q <= q2
            IN  /\ rec[r].status.isNil <=> hs = {}
                /\ Cardinality(hs) <= 2
                /\ Times(r, "forward") = IF hs = {} THEN 0 ELSE 1
                /\ hs # {} =>
                      /\ rec[r].status = StatusOf(trace[r][first][3])
                      /\ trace[r][first + 1] = <<"forward", trace[r][first][3]>>
                      /\ \A q \in hs \ {first} :
                            /\ trace[r][q + 1] = <<"panic", trace[r][q][2]>>
                            /\ q = RecorderTo(r) - 1
                            /\ Err[r] \in {NoErr, "the status code has already set"}
                /\ rec[r].size = Returned(r, Through(r, "Write"), Len(trace[r]))
                /\ Bytecount(body[r]) = Returned(r, Positions(r, "Write"), Len(trace[r]))

\* C26 witness: through the recorder a handler wrote three bytes, set status 200 and
\* then called WriteHeader again, which panicked; the request has finished.
C26_Witness ==
    \E r \in Requests :
        /\ pc[r] = "done"
        /\ rec[r].size = 3 /\ rec[r].status = StatusOf(200)
        /\ Cardinality(Through(r, "WriteHeader")) = 2
        /\ Through(r, "Write") # {}
        /\ Err[r] = "the status code has already set"

\* C27: once the call of a logging middleware has ended, by return or by a panic of
\* the rest of the chain, c.Writer is the writer the middleware found on entry and
\* exactly one record, with the recorder's status and size, has been handed to the
\* Logger (none if the Logger is nil); while the call lasts c.Writer is the recorder
\* and no record has been handed over. A panic is raised again with its value: when
\* safelyHandle has returned the error slot holds that value and the post-dispatch
\* hook has been called.
C27_LoggingRestoresLogsRepanics ==
    \A r \in Requests :
        Happened(r, "LoggingMiddleware") =>
            LET k == trace[r][RecorderFrom(r)][2]
                ended == RecorderTo(r) <= Len(trace[r])
                panicked == ended /\ trace[r][RecorderTo(r)][1] = "panic"
            IN  /\ Times(r, "LoggingMiddleware") = 1
                /\ rec[r].orig = "ResponseWriter"
                /\ IF ended
                   THEN /\ writer[r] = rec[r].orig
                        /\ logs[r] = IF HasLogger(HandlerAt(r, k))
                                      THEN << RequestLog(rec[r], req[r]) >> ELSE <<>>
                   ELSE writer[r] = "recorder" /\ logs[r] = <<>>
                /\ panicked =>
                      /\ trace[r][Len(trace[r])] # <<"panic", trace[r][RecorderTo(r)][2]>>
                      /\ Happened(r, "panic again")
                      /\ panicking[r] # NoPanic => pc[r] = "deferred"
                      /\ Handled(r) =>
                            /\ Err[r] \in {"handler panic", "the status code has already set"}
                            /\ (Err[r] = "handler panic")
                                  <=> (Through(r, "WriteHeader") = {}
                                         \/ trace[r][RecorderTo(r) - 1][1] # "WriteHeader")
                            /\ Times(r, "Post_Process") = 1
                /\ (ended /\ ~panicked) => ~Happened(r, "panic again")

\* C27 witness: under a logging middleware with a Logger the terminal handler wrote
\* and panicked; the request has finished with one record handed over, the
\* transport's writer back in place and the panic recorded as the Context's error.
C27_Witness ==
    \E r \in Requests :
        /\ pc[r] = "done"
        /\ Happened(r, "LoggingMiddleware") /\ Happened(r, "panic again")
        /\ Len(logs[r]) = 1 /\ logs[r][1].Size > 0
        /\ writer[r] = "ResponseWriter"
        /\ Err[r] = "handler panic"
        /\ Happened(r, "Post_Process")

\* The cursor is -1 until safelyHandle calls Next, and no handler index is invoked
\* twice for one request.
CursorStartsEachOnce ==
    \A r \in Requests :
        /\ pc[r] \in {"idle", "select", "pre", "dispatch"} => index[r] = -1
        /\ \A k \in 0..(MaxChain - 1) : Cardinality(PositionsOf(r, "invoke", k)) <= 1

\* C28 (as stated): the cursor starts at -1 and no step ever lowers it, and every
\* handler of the chain is invoked at most once per request.
C28_CursorNeverDecreases ==
    /\ []CursorStartsEachOnce
    /\ [][\A r \in Requests : index'[r] >= index[r]]_vars

\* C28 (amended): the cursor starts at -1 and no step lowers it, except that Abort
\* called when the cursor is already past the sentinel puts it back on the sentinel,
\* which is still past the end of the chain; every handler of the chain is invoked at
\* most once per request.
C28_CursorNeverReturnsIntoChain ==
    /\ []CursorStartsEachOnce
    /\ [][\A r \in Requests :
             \/ index'[r] >= index[r]
             \/ /\ index[r] > AbortIndex /\ index'[r] = AbortIndex
                /\ AbortIndex >= ChainLen(r)
                /\ trace'[r] = Append(trace[r], <<"Abort", Top(r).k>>)]_vars

\* C28 witness: the second handler called Abort and returned, which left the cursor
\* one past the sentinel; the first handler, which had called Next, then called Abort
\* and the cursor went back to the sentinel; the request has finished with each of
\* the two handlers invoked once.
C28_Witness ==
    \E r \in Requests :
        /\ pc[r] = "done"
        /\ \E p \in PositionsOf(r, "Abort", 1) : \E q \in PositionsOf(r, "Abort", 0) :
               /\ q > p
               /\ \E n \in PositionsOf(r, "Next", 0) : n < p
               /\ \E e \in PositionsOf(r, "return", 1) : p < e /\ e < q
        /\ Cardinality(PositionsOf(r, "invoke", 0)) = 1
        /\ Cardinality(PositionsOf(r, "invoke", 1)) = 1
        /\ index[r] > AbortIndex

\* C29: the timer goroutine of every request ends: once started it leaves its sleep
\* and its send completes, whether or not the request is still at the select. A
\* request that took a permit never receives the signal and is never shed, and the
\* send of its timer changes nothing but the timer's own channel: no variable of
\* this or of any other request, and not the permits.
C29_TimerEndsSignalInert ==
    /\ \A r \in Requests : (timer[r] = "sleeping") ~> (timer[r] \in {"fired", "received"})
    /\ [](\A r \in Requests : Dispatched(r) => (timer[r] # "received" /\ ~IsShed(r)))
    /\ [][\A r \in Requests :
             (Dispatched(r) /\ timer'[r] # timer[r])
                => /\ timer[r] = "sleeping" /\ timer'[r] = "fired"
                   /\ UNCHANGED <<routeVars, configVars, logVars, Data, wrapVars, ops, sem, pc, req,
                                   handlers, index, stack, panicking, Err, body, status,
                                   trace>>]_vars

\* C29 witness: a request took a permit, was served and has left ServeHTTP; its
\* timer's signal lies in the channel, received by nobody, while a later request was
\* shed on its own timer's signal.
C29_Witness ==
    \E r \in Requests : \E q \in Requests :
        /\ Dispatched(r) /\ pc[r] = "done" /\ timer[r] = "fired"
        /\ body[r] # <<"server overload">>
        /\ q # r /\ IsShed(q) /\ timer[q] = "received"

\* The fields of a request's Context that the handlers reach: the cursor, the error
\* slot, the response sink and the bag.
ContextOf(r) == <<index[r], Err[r], writer[r], gz[r], Data[r]>>

\* C30: no step of the serving of requests changes the route table; the step in which
\* a ServeHTTP call starts leaves the request with cursor -1, an empty bag, no error
\* and the transport's writer as its sink; a step that changes anything of one
\* request's call changes nothing of any other request's call; and a request's
\* cursor, error slot, sink and bag change only in steps of that request's own call,
\* between its start and its end.
C30_TableReadOnlyContextsOwned ==
    [][/\ UNCHANGED <<trees, groups>>
       /\ \A r \in Requests :
             /\ (pc[r] = "idle" /\ pc'[r] # "idle")
                   => /\ index'[r] = -1 /\ Data'[r] = {} /\ Err'[r] = NoErr
                      /\ writer'[r] = "ResponseWriter" /\ pc'[r] = "select"
             /\ Call(r)' # Call(r)
                   => \A q \in Requests \ {r} : Call(q)' = Call(q)
             /\ ContextOf(r)' # ContextOf(r)
                   => /\ trace'[r] # trace[r]
                      /\ pc[r] \notin {"idle", "select", "done"}
      ]_vars

\* C30 witness: two requests are inside their chains at the same time, each behind
\* its own gzip writer; the handler of one has stored a value in its bag, the handler
\* of the other has assigned its error field, and neither shows in the other's
\* Context; the route table is the one registered.
C30_Witness ==
    \E r \in Requests : \E q \in Requests \ {r} :
        /\ pc[r] = "chain" /\ pc[q] = "chain"
        /\ index[r] = 1 /\ index[q] = 1
        /\ writer[r] # "ResponseWriter" /\ writer[q] # "ResponseWriter"
        /\ Data[r] = {<<"user", "v1">>} /\ Err[r] = NoErr
        /\ Data[q] = {} /\ Err[q] = "handler error"
        /\ trees = GzipTrees

====
